---- MODULE Spec2Model ----
(***************************************************************************)
(* Contact-form submission pipeline of borderlessbits.com:                 *)
(*   lib/validation.ts  sanitizeInput, validateField, validateContactForm, *)
(*                      isLikelySpam, RateLimiter, formatFormData...       *)
(*   lib/emailjs.ts     sendContactEmail, submitNetlifyForm,               *)
(*                      submitContactForm, getRetryDelay                   *)
(*   lib/store.ts       useFormStore (setStatus, resetForm)                *)
(*   ContactForm.tsx    handleChange, handleSubmit, handleReset            *)
(* Strings are sequences of one-character strings.                         *)
(***************************************************************************)
EXTENDS Integers, Sequences, FiniteSets, TLC

(***************************************************************************)
(* Characters and string helpers                                           *)
(***************************************************************************)
UpperStr == <<"A","B","C","D","E","F","G","H","I","J","K","L","M",
              "N","O","P","Q","R","S","T","U","V","W","X","Y","Z">>

LowerStr == <<"a","b","c","d","e","f","g","h","i","j","k","l","m",
              "n","o","p","q","r","s","t","u","v","w","x","y","z">>

DigitStr == <<"0","1","2","3","4","5","6","7","8","9">>

Range(f) == {f[i] : i \in DOMAIN f}

\* F(v), with v evaluated once: the local constant of the source that F reads
Once(v, F(_)) == CHOOSE r \in {F(x) : x \in {v}} : TRUE

UpperChars == Range(UpperStr)

LowerChars == Range(LowerStr)

DigitChars == Range(DigitStr)

\* \s of the regular expressions and of String.prototype.trim
WhitespaceChars == {" ", "\t", "\n", "\r"}

\* \w of the regular expressions
WordChars == UpperChars \cup LowerChars \cup DigitChars \cup {"_"}

\* String.prototype.toLowerCase, one character
LowerOf(c) ==
    IF c \in UpperChars
    THEN LowerStr[CHOOSE i \in DOMAIN UpperStr : UpperStr[i] = c]
    ELSE c

\* String.prototype.toLowerCase
ToLowerCase(s) == [i \in 1..Len(s) |-> LowerOf(s[i])]

\* pat occurs in s at position i (case-sensitive)
MatchAt(s, i, pat) ==
    /\ i >= 1
    /\ i + Len(pat) - 1 <= Len(s)
    /\ SubSeq(s, i, i + Len(pat) - 1) = pat

\* pat (given in lower case) occurs in s at position i, ignoring case
MatchAtI(s, i, pat) ==
    /\ i >= 1
    /\ i + Len(pat) - 1 <= Len(s)
    /\ \A j \in 1..Len(pat) : LowerOf(s[i + j - 1]) = pat[j]

\* String.prototype.includes
Includes(s, pat) == \E i \in 1..(Len(s) + 1) : MatchAt(s, i, pat)

\* /pat/i.test(s) for a literal pattern
IncludesI(s, pat) == \E i \in 1..(Len(s) + 1) : MatchAtI(s, i, pat)

\* String.prototype.substring(0, n)
Substring0(s, n) == IF Len(s) <= n THEN s ELSE SubSeq(s, 1, n)

\* String.prototype.trim
RECURSIVE TrimLeft(_)
TrimLeft(s) ==
    IF s /= <<>> /\ Head(s) \in WhitespaceChars THEN TrimLeft(Tail(s)) ELSE s

RECURSIVE TrimRight(_)
TrimRight(s) ==
    IF s /= <<>> /\ s[Len(s)] \in WhitespaceChars
    THEN TrimRight(SubSeq(s, 1, Len(s) - 1))
    ELSE s

Trim(s) == TrimRight(TrimLeft(s))

\* s.replace(/\s+/g, ' '): every maximal run of whitespace becomes one space
\* (the first character of a run is replaced by a space, the others by the
\* empty string, which the selection drops)
CollapseWhitespace(s) ==
    SelectSeq([i \in 1..Len(s) |->
                  IF s[i] \notin WhitespaceChars THEN s[i]
                  ELSE IF i > 1 /\ s[i - 1] \in WhitespaceChars THEN ""
                  ELSE " "],
              LAMBDA c : c /= "")

(***************************************************************************)
(* validation.ts: sanitizeInput                                            *)
(***************************************************************************)
\* the value of an absent optional text field (undefined); no string equals it
Undefined == <<"undefined">>

\* "<" at position i opens a tag in the HTML tokenizer: "<x", "</x", "<!"
OpensTag(s, i) ==
    /\ s[i] = "<"
    /\ i < Len(s)
    /\ \/ s[i + 1] \in UpperChars \cup LowerChars
       \/ s[i + 1] = "!"
       \/ /\ s[i + 1] = "/"
          /\ i + 1 < Len(s)
          /\ s[i + 2] \in UpperChars \cup LowerChars

\* Serialisation of one text character by innerHTML
EscapeText(c) ==
    CASE c = "<" -> <<"&","l","t",";">>
      [] c = ">" -> <<"&","g","t",";">>
      [] c = "&" -> <<"&","a","m","p",";">>
      [] OTHER   -> <<c>>

\* Serialisation of a text: the text up to its first character that needs
\* escaping, the escape, and the serialisation of the rest
RECURSIVE EscapeAll(_)
EscapeAll(t) ==
    LET special == {p \in DOMAIN t : t[p] \in {"<", ">", "&"}}
    IN  IF special = {} THEN t
        ELSE LET p == CHOOSE q \in special : \A r \in special : q <= r
             IN  SubSeq(t, 1, p - 1) \o EscapeText(t[p])
                     \o EscapeAll(SubSeq(t, p + 1, Len(t)))

\* Position i lies in a tag: a tag opens at or before i and no ">" closes it
\* before i (a tag runs to the next ">", to the end of input when
\* unterminated)
InTag(s, opens, closes, i) ==
    \E j \in opens : j <= i /\ \A k \in closes : ~(j <= k /\ k < i)

\* Parse s from position i on and re-serialise it with every element removed
\* and its text kept
StripTags(s, i) ==
    LET opens  == {j \in i..Len(s) : OpensTag(s, j)}
        closes == {k \in i..Len(s) : s[k] = ">"}
        kept   == SelectSeq([n \in 1..Len(s) |-> n],
                            LAMBDA n : n >= i /\ ~InTag(s, opens, closes, n))
    IN  EscapeAll([n \in 1..Len(kept) |-> s[kept[n]]])

\* DOMPurify.sanitize(input, {ALLOWED_TAGS: [], ALLOWED_ATTR: []}): input
\* without "<" is returned as it is, anything else is parsed and serialised
DOMPurifySanitize(input) ==
    IF ~Includes(input, <<"<">>) THEN input ELSE StripTags(input, 1)

\* maximum length kept by sanitizeInput
SanitizeMaxLength == 2000

sanitizeInput(input) ==
    IF input = Undefined \/ input = <<>>
    THEN <<>>
    ELSE Once(DOMPurifySanitize(input), LAMBDA cleaned :
         Once(Trim(cleaned), LAMBDA trimmed :
         Once(CollapseWhitespace(trimmed), LAMBDA normalized :
              Substring0(normalized, SanitizeMaxLength))))

(***************************************************************************)
(* validation.ts: patterns                                                 *)
(***************************************************************************)
\* /<tag[^>]*>/i : "<tag" followed, somewhere later, by ">"
HasTag(s, tag) ==
    \E i \in 1..Len(s) :
        /\ MatchAtI(s, i, <<"<">> \o tag)
        /\ \E j \in (i + Len(tag) + 1)..Len(s) : s[j] = ">"

\* /on\w+\s*=/i : "on", one or more word characters, optional whitespace, "="
HasEventHandler(s) ==
    \E i \in 1..Len(s) :
        /\ MatchAtI(s, i, <<"o","n">>)
        /\ \E k \in (i + 3)..Len(s) :
              /\ s[k] = "="
              /\ \E m \in (i + 2)..(k - 1) :
                    /\ \A x \in (i + 2)..m : s[x] \in WordChars
                    /\ \A x \in (m + 1)..(k - 1) : s[x] \in WhitespaceChars

SUSPICIOUS_PATTERNS(s) ==
    \/ HasTag(s, <<"s","c","r","i","p","t">>)
    \/ IncludesI(s, <<"j","a","v","a","s","c","r","i","p","t",":">>)
    \/ HasEventHandler(s)
    \/ IncludesI(s, <<"d","a","t","a",":","t","e","x","t","/","h","t","m","l">>)
    \/ IncludesI(s, <<"v","b","s","c","r","i","p","t",":">>)
    \/ HasTag(s, <<"i","f","r","a","m","e">>)
    \/ HasTag(s, <<"o","b","j","e","c","t">>)
    \/ HasTag(s, <<"e","m","b","e","d">>)
    \/ HasTag(s, <<"f","o","r","m">>)
    \/ HasTag(s, <<"i","n","p","u","t">>)

AlnumChars == UpperChars \cup LowerChars \cup DigitChars

\* characters of the local part in EMAIL_REGEX
EmailLocalChars ==
    AlnumChars \cup {".","!","#","$","%","&","'","*","+","/","=","?","^","_",
                     "backquote","{","|","}","~","-"}

\* [a-zA-Z0-9](?:[a-zA-Z0-9-]{0,61}[a-zA-Z0-9])? : one domain label
IsEmailLabel(l) ==
    /\ Len(l) >= 1
    /\ Len(l) <= 63
    /\ l[1] \in AlnumChars
    /\ l[Len(l)] \in AlnumChars
    /\ \A i \in 1..Len(l) : l[i] \in AlnumChars \cup {"-"}

\* label(\.label)* : the labels are the maximal dot-free pieces
IsEmailDomain(d) ==
    /\ d /= <<>>
    /\ \A i \in 1..Len(d) : \A j \in i..Len(d) :
          ( /\ i = 1 \/ d[i - 1] = "."
            /\ j = Len(d) \/ d[j + 1] = "."
            /\ \A x \in i..j : d[x] /= "." )
          => IsEmailLabel(SubSeq(d, i, j))
    /\ d[1] /= "."
    /\ d[Len(d)] /= "."
    /\ ~Includes(d, <<".", ".">>)

EMAIL_REGEX(s) ==
    \E a \in 1..Len(s) :
        /\ s[a] = "@"
        /\ a > 1
        /\ \A i \in 1..(a - 1) : s[i] \in EmailLocalChars
        /\ IsEmailDomain(SubSeq(s, a + 1, Len(s)))

\* letters of the ranges U+00C0-U+00FF, U+0100-U+024F, U+1E00-U+1EFF, each
\* written as one named character
AccentedChars == {"e-acute", "u-umlaut", "n-tilde"}

NAME_REGEX(s) ==
    /\ s /= <<>>
    /\ \A i \in 1..Len(s) :
          s[i] \in UpperChars \cup LowerChars \cup AccentedChars
                   \cup WhitespaceChars \cup {"-", "'", "."}

(***************************************************************************)
(* validation.ts: validateField, validateContactForm                       *)
(***************************************************************************)
\* the return value null of validateField
Null == "null"

NameMinLength == 2

NameMaxLength == 100

EmailMaxLength == 254

CompanyMaxLength == 200

MessageMinLength == 10

MessageMaxLength == 2000

validateName(v) ==
    IF v = <<>> THEN "Name is required"
    ELSE IF Len(v) < NameMinLength THEN "Name must be at least 2 characters long"
    ELSE IF Len(v) > NameMaxLength THEN "Name must be less than 100 characters"
    ELSE IF ~NAME_REGEX(v)
         THEN "Name can only contain letters, spaces, hyphens, and apostrophes"
    ELSE Null

validateEmail(v) ==
    IF v = <<>> THEN "Email is required"
    ELSE IF ~EMAIL_REGEX(v) THEN "Please enter a valid email address"
    ELSE IF Len(v) > EmailMaxLength THEN "Email address is too long"
    ELSE Null

validateCompany(v) ==
    IF v /= <<>> /\ Len(v) > CompanyMaxLength
    THEN "Company name must be less than 200 characters"
    ELSE Null

validateMessage(v) ==
    IF v = <<>> THEN "Message is required"
    ELSE IF Len(v) < MessageMinLength
         THEN "Message must be at least 10 characters long"
    ELSE IF Len(v) > MessageMaxLength
         THEN "Message must be less than 2000 characters"
    ELSE Null

\* /^[\+]?[1-9][\d]{0,15}$/
PHONE_REGEX(s) ==
    LET d == IF s /= <<>> /\ s[1] = "+" THEN Tail(s) ELSE s
    IN  /\ Len(d) >= 1
        /\ Len(d) <= 16
        /\ d[1] \in DigitChars \ {"0"}
        /\ \A i \in 1..Len(d) : d[i] \in DigitChars

validatePhone(v) ==
    IF v /= <<>> /\ ~PHONE_REGEX(v)
    THEN "Please enter a valid phone number"
    ELSE Null

validateField(field, value) ==
    Once(sanitizeInput(value), LAMBDA sanitizedValue :
        IF SUSPICIOUS_PATTERNS(sanitizedValue)
        THEN "Invalid characters detected. Please remove any HTML or script content."
        ELSE CASE field = "name"    -> validateName(sanitizedValue)
               [] field = "email"   -> validateEmail(sanitizedValue)
               [] field = "company" -> validateCompany(sanitizedValue)
               [] field = "message" -> validateMessage(sanitizedValue)
               [] field = "phone"   -> validatePhone(sanitizedValue)
               [] OTHER             -> Null)

validProjectTypes ==
    {"cloud_architecture", "healthcare_software", "enterprise_consulting", "other"}

validTimelines ==
    {"immediate", "within_3_months", "within_6_months", "planning_phase"}

validBudgetRanges ==
    {"under_25k", "from_25k_to_50k", "from_50k_to_100k", "over_100k"}

validReferralSources == {"google_search", "linkedin", "referral", "other"}

\* an enum field left undefined (or set to the empty option)
NoEnum == ""

\* a text value is falsy when undefined or empty
Falsy(v) == v = Undefined \/ v = <<>>

FieldNames ==
    {"name", "email", "message", "company", "project_type", "project_timeline",
     "budget_range", "referral_source"}

\* FormErrors: the fields that carry an error, with their message
validateContactForm(data) ==
    LET nameError    == validateField("name", data.name)
        emailError   == validateField("email", data.email)
        messageError == validateField("message", data.message)
        companyError == IF Falsy(data.company) THEN Null
                        ELSE validateField("company", data.company)
        typeError    == IF data.project_type \notin validProjectTypes
                        THEN "Please select a valid project type" ELSE Null
        timeError    == IF data.project_timeline \notin validTimelines
                        THEN "Please select a valid timeline" ELSE Null
        budgetError  == IF data.budget_range /= NoEnum
                           /\ data.budget_range \notin validBudgetRanges
                        THEN "Please select a valid budget range" ELSE Null
        refError     == IF data.referral_source /= NoEnum
                           /\ data.referral_source \notin validReferralSources
                        THEN "Please select a valid referral source" ELSE Null
        all == [name |-> nameError, email |-> emailError,
                message |-> messageError, company |-> companyError,
                project_type |-> typeError, project_timeline |-> timeError,
                budget_range |-> budgetError, referral_source |-> refError]
        bad == {f \in FieldNames : all[f] /= Null}
    IN  [f \in bad |-> all[f]]

\* the FormErrors object {}
NoErrors == [f \in {} |-> Null]

formatFormDataForSubmission(data) ==
    [name             |-> sanitizeInput(data.name),
     email            |-> ToLowerCase(sanitizeInput(data.email)),
     company          |-> IF Falsy(data.company) THEN Undefined
                          ELSE sanitizeInput(data.company),
     project_type     |-> data.project_type,
     project_timeline |-> data.project_timeline,
     message          |-> sanitizeInput(data.message),
     budget_range     |-> data.budget_range,
     referral_source  |-> data.referral_source]

(***************************************************************************)
(* validation.ts: isLikelySpam                                             *)
(***************************************************************************)
\* (data.message.match(/https?:\/\//g) || []).length
CountUrls(s) ==
    Cardinality({i \in 1..Len(s) :
        \/ MatchAt(s, i, <<"h","t","t","p",":","/","/">>)
        \/ MatchAt(s, i, <<"h","t","t","p","s",":","/","/">>)})

\* /(.)\1{10,}/ : one character (not a line break) 11 times in a row
HasRepeatedChars(s) ==
    \E i \in 1..(Len(s) - 10) :
        /\ s[i] \notin {"\n", "\r"}
        /\ \A j \in i..(i + 10) : s[j] = s[i]

SpamPhrases ==
    { <<"b","u","y"," ","n","o","w">>,
      <<"c","l","i","c","k"," ","h","e","r","e">>,
      <<"f","r","e","e"," ","m","o","n","e","y">>,
      <<"g","u","a","r","a","n","t","e","e","d">>,
      <<"l","i","m","i","t","e","d"," ","t","i","m","e">>,
      <<"a","c","t"," ","n","o","w">> }

\* \b holds between positions i-1 and i
WordBoundary(s, i) ==
    LET before == i > 1 /\ i - 1 <= Len(s) /\ s[i - 1] \in WordChars
        after  == i >= 1 /\ i <= Len(s) /\ s[i] \in WordChars
    IN  before /= after

HasSpamPhrase(s) ==
    \E p \in SpamPhrases : \E i \in 1..Len(s) :
        /\ MatchAtI(s, i, p)
        /\ WordBoundary(s, i)
        /\ WordBoundary(s, i + Len(p))

\* data.message.replace(/[^A-Z]/g, '').length > data.message.length * 0.5
ExcessiveCaps(s) ==
    2 * Cardinality({i \in 1..Len(s) : s[i] \in UpperChars}) > Len(s)

\* the email indicator, were its digits to count wherever they are
SuspiciousEmailDigitsAnywhere(e) ==
    \/ \E i \in 5..Len(e) : \A j \in (i - 4)..i : e[j] \in DigitChars
    \/ IncludesI(e, <<"n","o","r","e","p","l","y">>)
    \/ IncludesI(e, <<"n","o","-","r","e","p","l","y">>)

\* /\d{5,}@/.test(email) || /noreply|no-reply/i.test(email)
SuspiciousEmail(e) ==
    \/ \E i \in 6..Len(e) :
          /\ e[i] = "@"
          /\ \A j \in (i - 5)..(i - 1) : e[j] \in DigitChars
    \/ IncludesI(e, <<"n","o","r","e","p","l","y">>)
    \/ IncludesI(e, <<"n","o","-","r","e","p","l","y">>)

GenericNames ==
    { <<"t","e","s","t">>, <<"u","s","e","r">>,
      <<"a","d","m","i","n">>, <<"n","a","m","e">> }

GenericName(n) == Len(n) < 2 \/ ToLowerCase(n) \in GenericNames

SpamThreshold == 2

spamIndicators(data) ==
    << CountUrls(data.message) > 2,
       HasRepeatedChars(data.message),
       HasSpamPhrase(data.message),
       ExcessiveCaps(data.message),
       SuspiciousEmail(data.email),
       GenericName(data.name) >>

\* isLikelySpam, were one indicator enough
isLikelySpamOnOne(data) ==
    Cardinality({i \in 1..6 : spamIndicators(data)[i]}) >= 1

isLikelySpam(data) ==
    Once(data, LAMBDA d :
        Once(spamIndicators(d), LAMBDA indicators :
            Cardinality({i \in 1..6 : indicators[i]}) >= SpamThreshold))


(***************************************************************************)
(* validation.ts: RateLimiter                                              *)
(***************************************************************************)
\* default maxAttempts of isAllowed and getRemainingTime
DefaultMaxAttempts == 5

\* default windowMs of isAllowed and getRemainingTime: 5 * 60 * 1000
DefaultWindowMs == 300000

\* this.attempts.get(identifier) || []
MapGet(m, identifier) == IF identifier \in DOMAIN m THEN m[identifier] ELSE <<>>

\* this.attempts.set(identifier, value)
MapSet(m, identifier, value) ==
    [k \in DOMAIN m \cup {identifier} |-> IF k = identifier THEN value ELSE m[k]]

\* attempts.filter(time => now - time < windowMs)
RECURSIVE FilterInWindow(_, _, _)
FilterInWindow(times, t, windowMs) ==
    IF times = <<>> THEN <<>>
    ELSE IF t - Head(times) < windowMs
         THEN <<Head(times)>> \o FilterInWindow(Tail(times), t, windowMs)
         ELSE FilterInWindow(Tail(times), t, windowMs)

\* isAllowed, were it to reject only above maxAttempts
isAllowedOneMore(m, identifier, t, maxAttempts, windowMs) ==
    Len(FilterInWindow(MapGet(m, identifier), t, windowMs)) <= maxAttempts

\* the value isAllowed returns when called at time t
isAllowed(m, identifier, t, maxAttempts, windowMs) ==
    Len(FilterInWindow(MapGet(m, identifier), t, windowMs)) < maxAttempts

\* isAllowed, were it to record the rejected calls too
isAllowedAttemptsRecordingAll(m, identifier, t, maxAttempts, windowMs) ==
    MapSet(m, identifier,
           Append(FilterInWindow(MapGet(m, identifier), t, windowMs), t))

\* the map isAllowed leaves behind when called at time t
isAllowedAttempts(m, identifier, t, maxAttempts, windowMs) ==
    LET validAttempts == FilterInWindow(MapGet(m, identifier), t, windowMs)
    IN  IF Len(validAttempts) >= maxAttempts
        THEN m
        ELSE MapSet(m, identifier, Append(validAttempts, t))

Max(a, b) == IF a >= b THEN a ELSE b

Min(a, b) == IF a <= b THEN a ELSE b

\* getRemainingTime, were it to read the newest timestamp
getRemainingTimeOfNewest(m, identifier, t, maxAttempts, windowMs) ==
    LET times == MapGet(m, identifier)
    IN  IF Len(times) < maxAttempts THEN 0
        ELSE Max(0, windowMs - (t - times[Len(times)]))

getRemainingTime(m, identifier, t, maxAttempts, windowMs) ==
    LET times == MapGet(m, identifier)
    IN  IF Len(times) < maxAttempts THEN 0
        ELSE Max(0, windowMs - (t - times[1]))

(***************************************************************************)
(* store.ts: useFormStore                                                  *)
(***************************************************************************)
\* message || null
OrNull(message) == IF message = "" THEN Null ELSE message

FormStoreInit ==
    [isSubmitting |-> FALSE, submitStatus |-> "idle", errorMessage |-> Null]

\* setStatus(status, message); message is "" when the argument is left out
\* setStatus, were it to leave isSubmitting false
setStatusNeverSubmitting(status, message) ==
    [isSubmitting  |-> FALSE,
     submitStatus  |-> status,
     errorMessage  |-> OrNull(message)]

\* setStatus, were it to store the message as it is given
setStatusRawMessage(status, message) ==
    [isSubmitting  |-> (status = "submitting"),
     submitStatus  |-> status,
     errorMessage  |-> message]

setStatus(status, message) ==
    [isSubmitting  |-> (status = "submitting"),
     submitStatus  |-> status,
     errorMessage  |-> OrNull(message)]

resetForm == [isSubmitting |-> FALSE, submitStatus |-> "idle", errorMessage |-> Null]

(***************************************************************************)
(* emailjs.ts: configuration, retry delay, results                         *)
(***************************************************************************)
\* RETRY_CONFIG.maxAttempts
RetryMaxAttempts == 3

\* RETRY_CONFIG.baseDelay
RetryBaseDelay == 1000

\* RETRY_CONFIG.maxDelay
RetryMaxDelay == 5000

RECURSIVE Pow2(_)
Pow2(n) == IF n <= 0 THEN 1 ELSE 2 * Pow2(n - 1)

\* getRetryDelay, were the exponent the attempt itself
getRetryDelayFromTwo(attempt) == Min(RetryBaseDelay * Pow2(attempt), RetryMaxDelay)

getRetryDelay(attempt) == Min(RetryBaseDelay * Pow2(attempt - 1), RetryMaxDelay)

\* a thrown or rejected value: an Error has a message, an EmailJSResponseStatus
\* has a text; "" stands for a property the value does not have
ErrorValue(isError, message, text) ==
    [isError |-> isError, message |-> message, text |-> text]

NoError == ErrorValue(FALSE, "", "")

getErrorMessage(error) ==
    IF error.message /= "" THEN error.message
    ELSE IF error.text /= "" THEN error.text
    ELSE "An unexpected error occurred. Please try again."

\* an EmailSubmissionResult a promise resolves to (its timestamp, the value
\* of Date.now(), is not kept)
Resolved(success, service, message) ==
    [kind |-> "resolved", success |-> success, service |-> service,
     message |-> message, error |-> NoError]

\* a promise that rejects with error
Rejected(error) ==
    [kind |-> "rejected", success |-> FALSE, service |-> "none",
     message |-> "", error |-> error]

\* no call has settled yet
NoResult ==
    [kind |-> "none", success |-> FALSE, service |-> "none",
     message |-> "", error |-> NoError]

\* validateEmailJSConfig: "" stands for an environment variable that is not set
validateEmailJSConfig(config) ==
    /\ config.serviceId /= ""
    /\ config.templateId /= ""
    /\ config.publicKey /= ""

\* window.location.hostname.includes('netlify.app')
OnNetlify(host) == host \in {"borderlessbits.netlify.app"}

(***************************************************************************)
(* emailjs.ts: the body submitNetlifyForm posts.  A body is a sequence of  *)
(* units: an encoded character ("a", "+", "%40"), a word of characters the *)
(* encoding leaves alone (a field name, an enum value), "=" or "&"         *)
(***************************************************************************)
\* the characters application/x-www-form-urlencoded leaves as they are
UrlSafeChars == AlnumChars \cup {"*", "-", ".", "_"}

\* the percent-encoding of the other characters
PercentEncode ==
    ("!" :> "%21") @@ ("\"" :> "%22") @@ ("#" :> "%23") @@ ("$" :> "%24") @@
    ("%" :> "%25") @@ ("&" :> "%26") @@ ("'" :> "%27") @@ ("(" :> "%28") @@
    (")" :> "%29") @@ ("+" :> "%2B") @@ ("," :> "%2C") @@ ("/" :> "%2F") @@
    (":" :> "%3A") @@ (";" :> "%3B") @@ ("<" :> "%3C") @@ ("=" :> "%3D") @@
    (">" :> "%3E") @@ ("?" :> "%3F") @@ ("@" :> "%40")

\* the serializer of URLSearchParams, one character
UrlEncodeChar(c) ==
    IF c \in UrlSafeChars THEN c
    ELSE IF c = " " THEN "+"
    ELSE PercentEncode[c]

\* the serializer of URLSearchParams, one name or value
UrlEncode(s) == [i \in 1..Len(s) |-> UrlEncodeChar(s[i])]

\* formDataToSubmit: the (name, value) entries in the order of the append
\* calls; a field name or an enum value is one word
NetlifyFormEntries(sanitizedData) ==
    <<  <<"form-name", <<"contact">> >>,
        <<"name", UrlEncode(sanitizedData.name)>>,
        <<"email", UrlEncode(sanitizedData.email)>>  >>
    \o (IF Falsy(sanitizedData.company) THEN <<>>
        ELSE << <<"company", UrlEncode(sanitizedData.company)>> >>)
    \o << <<"project-type", <<sanitizedData.project_type>> >>,
          <<"project-timeline", <<sanitizedData.project_timeline>> >>,
          <<"message", UrlEncode(sanitizedData.message)>> >>
    \o (IF sanitizedData.budget_range = NoEnum THEN <<>>
        ELSE << <<"budget-range", <<sanitizedData.budget_range>> >> >>)
    \o (IF sanitizedData.referral_source = NoEnum THEN <<>>
        ELSE << <<"referral-source", <<sanitizedData.referral_source>> >> >>)

\* new URLSearchParams(formDataToSubmit).toString(): name=value joined by &
RECURSIVE URLSearchParamsToString(_)
URLSearchParamsToString(entries) ==
    IF entries = <<>> THEN <<>>
    ELSE <<entries[1][1], "=">> \o entries[1][2]
         \o (IF Len(entries) = 1 THEN <<>>
             ELSE <<"&">> \o URLSearchParamsToString(Tail(entries)))

\* the body of the POST of submitNetlifyForm(formData)
netlifyBody(formData) ==
    URLSearchParamsToString(
        NetlifyFormEntries(formatFormDataForSubmission(formData)))

\* the parser of application/x-www-form-urlencoded, one unit
UrlDecodeUnit(u) ==
    IF u = "+" THEN " "
    ELSE IF \E c \in DOMAIN PercentEncode : PercentEncode[c] = u
    THEN CHOOSE c \in DOMAIN PercentEncode : PercentEncode[c] = u
    ELSE u

\* the parser of application/x-www-form-urlencoded: split at every &, split
\* each piece at its first =, decode the value; the fields by name
UrlDecodeBody(body) ==
    LET seps   == SelectSeq([i \in 1..Len(body) |-> i], LAMBDA i : body[i] = "&")
        n      == Len(seps) + 1
        from(k) == IF k = 1 THEN 1 ELSE seps[k - 1] + 1
        to(k)   == IF k = n THEN Len(body) ELSE seps[k] - 1
        eq(k)   == CHOOSE i \in from(k)..to(k) :
                       /\ body[i] = "="
                       /\ \A j \in from(k)..(i - 1) : body[j] /= "="
        names  == {body[from(k)] : k \in 1..n}
        piece(name) == CHOOSE k \in 1..n : body[from(k)] = name
    IN  [name \in names |->
            [i \in 1..(to(piece(name)) - eq(piece(name))) |->
                UrlDecodeUnit(body[eq(piece(name)) + i])]]

(***************************************************************************)
(* Bounds of the model                                                     *)
(***************************************************************************)
\* the clock of the form advances in steps of TickMs, up to MaxTicks steps
TickMs == 300000

MaxTicks == 1

\* the clock of the rate limiter on its own advances in steps of LimiterTickMs,
\* up to LimiterMaxTicks steps
LimiterTickMs == 100000

LimiterMaxTicks == 3

\* invocations of handleSubmit that can be in flight together
MaxHandlers == 2

Handlers == 1..MaxHandlers

(***************************************************************************)
(* Inputs                                                                  *)
(***************************************************************************)
NameJo == <<"J","o">>

EmailAB == <<"a","@","b",".","c","o">>

Message10 == <<"1","2","3","4","5","6","7","8","9","0">>

\* a message with a spam phrase and more than 50% capitals
MessageSpam == <<"B","U","Y"," ","N","O","W","!","!","!">>

\* (field, value) pairs the user can type
ChangeInputs ==
    { <<"name", NameJo>>, <<"email", EmailAB>>,
      <<"message", Message10>>, <<"message", MessageSpam>> }

HoneypotInputs == { <<>>, <<"x">> }

Hostnames == {"borderlessbits.netlify.app", "borderlessbits.com"}

\* process.env values of EMAILJS_CONFIG
EmailjsConfigs ==
    { [serviceId |-> "service_1", templateId |-> "template_1", publicKey |-> "key_1"],
      [serviceId |-> "service_1", templateId |-> "", publicKey |-> "key_1"] }

\* process.env.NEXT_PUBLIC_EMAILJS_AUTOREPLY_TEMPLATE_ID
AutoReplyTemplateIds == {"", "template_reply"}

\* what fetch('/') can do
FetchOutcomes == {"ok", "httpError", "networkError"}

\* what emailjs.send can do
SendOutcomes == {"ok", "rejected"}

(***************************************************************************)
(* State                                                                   *)
(***************************************************************************)
VARIABLES
    hostname,            \* window.location.hostname
    emailjsConfig,       \* EMAILJS_CONFIG
    autoReplyTemplateId, \* the auto-reply template of the environment
    now,                 \* Date.now()
    attempts,            \* rateLimiter.attempts
    formStore,           \* useFormStore: isSubmitting, submitStatus, errorMessage
    formData,            \* ContactForm state formData
    errors,              \* ContactForm state errors
    honeypotField,       \* ContactForm state honeypotField
    handlers,            \* the invocations of handleSubmit
    lastEvent,           \* what handleSubmit did in the last step, if it ran
    accepted,            \* per identifier, every timestamp isAllowed accepted
    lastCall,            \* the last direct call of isAllowed and its result
    call,                \* a direct call of a function of validation.ts
    ret,                 \* what that call returned
    deploy               \* a run of scripts/deploy.sh

vars == <<hostname, emailjsConfig, autoReplyTemplateId, now, attempts, formStore,
          formData, errors, honeypotField, handlers, lastEvent, accepted, lastCall,
          call, ret, deploy>>

\* the environment, and the record of the direct calls of the rate limiter
env == <<hostname, emailjsConfig, autoReplyTemplateId, accepted, lastCall,
         call, ret, deploy>>

\* no function of validation.ts has been called directly
NoDirectCall == [fn |-> "none", arg |-> <<>>]

\* the direct call has not returned
NotReturned == [returned |-> FALSE, value |-> <<>>]

Returned(value) == [returned |-> TRUE, value |-> value]

\* deploy.sh is not running
DeployIdle == [pc |-> "none"]

\* the identifiers of the direct calls of the rate limiter
Identifiers == {"client", "other"}

NoCall == [identifier |-> "", time |-> 0, allowed |-> FALSE]

initialFormData ==
    [name |-> <<>>, email |-> <<>>, company |-> <<>>,
     project_type |-> "cloud_architecture", project_timeline |-> "planning_phase",
     message |-> <<>>, budget_range |-> NoEnum, referral_source |-> NoEnum]

\* an invocation of handleSubmit that has not started
HandlerInit ==
    [pc |-> "idle", formData |-> initialFormData, retryAttempt |-> 1,
     admitted |-> FALSE, validationErrors |-> NoErrors,
     fetchCalls |-> 0, emailjsCalls |-> 0, sendCalls |-> 0,
     autoReplyCalls |-> 0, autoReplyFailed |-> FALSE, delivered |-> 0,
     sleeps |-> <<>>,
     netlifyResult |-> NoResult, emailjsResult |-> NoResult, result |-> NoResult]

Init ==
    /\ hostname \in Hostnames
    /\ emailjsConfig \in EmailjsConfigs
    /\ autoReplyTemplateId \in AutoReplyTemplateIds
    /\ now = 0
    /\ attempts = <<>>
    /\ formStore = FormStoreInit
    /\ formData = initialFormData
    /\ errors = NoErrors
    /\ honeypotField = <<>>
    /\ handlers = [h \in Handlers |-> HandlerInit]
    /\ lastEvent = "none"
    /\ accepted = [i \in Identifiers |-> <<>>]
    /\ lastCall = NoCall
    /\ call = NoDirectCall
    /\ ret = NotReturned
    /\ deploy = DeployIdle

(***************************************************************************)
(* emailjs.ts: sendContactEmail, submitNetlifyForm, submitContactForm      *)
(* Each operator takes the invocation record h and returns it as it is at  *)
(* the next await (pc names the pending call) or at the return ("done").   *)
(***************************************************************************)
\* the catch block of sendContactEmail, were it to retry once more
sendContactEmailCatchOnceMore(h, error) ==
    IF h.retryAttempt < RetryMaxAttempts + 1
    THEN [h EXCEPT !.pc = "sleep",
                   !.sleeps = Append(@, getRetryDelay(h.retryAttempt))]
    ELSE [h EXCEPT !.pc = "emailDone",
                   !.emailjsResult =
                       Resolved(FALSE, "emailjs", getErrorMessage(error))]

\* catch block of sendContactEmail
sendContactEmailCatch(h, error) ==
    IF h.retryAttempt < RetryMaxAttempts
    THEN [h EXCEPT !.pc = "sleep",
                   !.sleeps = Append(@, getRetryDelay(h.retryAttempt))]
    ELSE [h EXCEPT !.pc = "emailDone",
                   !.emailjsResult =
                       Resolved(FALSE, "emailjs", getErrorMessage(error))]

\* sendContactEmail(formData, retryAttempt) up to the call of emailjs.send
sendContactEmail(h, retryAttempt) ==
    LET h1 == [h EXCEPT !.retryAttempt = retryAttempt]
    IN  IF ~validateEmailJSConfig(emailjsConfig)
        THEN sendContactEmailCatch(h1,
                 ErrorValue(TRUE, "EmailJS configuration is incomplete", ""))
        ELSE IF isLikelySpam(formatFormDataForSubmission(h1.formData))
        THEN [h1 EXCEPT !.pc = "emailDone",
                        !.emailjsResult =
                            Resolved(FALSE, "emailjs",
                                     "Submission rejected due to spam detection")]
        ELSE [h1 EXCEPT !.pc = "emailSend", !.sendCalls = @ + 1]

\* sendAutoReply, were it to skip the auto-reply always
sendAutoReplySkipped(h) ==
    [h EXCEPT !.pc = "emailDone",
              !.emailjsResult =
                  Resolved(TRUE, "emailjs", "Email sent successfully")]

\* sendContactEmail after emailjs.send resolved: sendAutoReply up to its send
sendAutoReply(h) ==
    IF autoReplyTemplateId = ""
    THEN [h EXCEPT !.pc = "emailDone",
                   !.emailjsResult =
                       Resolved(TRUE, "emailjs", "Email sent successfully")]
    ELSE [h EXCEPT !.pc = "autoReply", !.autoReplyCalls = @ + 1]

\* sendContactEmail, were a rejected auto-reply to escape it
sendContactEmailReturnRethrow(h, outcome) ==
    [h EXCEPT !.pc = "emailDone",
              !.emailjsResult =
                  IF outcome = "ok"
                  THEN Resolved(TRUE, "emailjs", "Email sent successfully")
                  ELSE Rejected(ErrorValue(FALSE, "", "Bad Request"))]

\* sendContactEmail after the auto-reply settled; .catch swallows a rejection
\* and warns 'Auto-reply failed'
sendContactEmailReturn(h, outcome) ==
    [h EXCEPT !.pc = "emailDone",
              !.autoReplyFailed = (outcome = "rejected"),
              !.emailjsResult =
                  Resolved(TRUE, "emailjs", "Email sent successfully")]

\* sendContactEmail after emailjs.send settled; delivered counts the calls of
\* a provider that delivered the main message
sendContactEmailSettle(h, outcome) ==
    IF outcome = "ok"
    THEN sendAutoReply([h EXCEPT !.delivered = @ + 1])
    ELSE sendContactEmailCatch(h, ErrorValue(FALSE, "", "Bad Request"))

\* submitContactForm, were it to hand on the result of sendContactEmail
submitContactFormReturnAsIs(h) ==
    [h EXCEPT !.pc = "done", !.result = h.emailjsResult]

\* submitContactForm after sendContactEmail settled
submitContactFormReturn(h) ==
    IF h.emailjsResult.kind = "rejected"
    THEN [h EXCEPT !.pc = "done", !.result = h.emailjsResult]
    ELSE IF ~h.emailjsResult.success
    THEN [h EXCEPT !.pc = "done",
                   !.result = Resolved(FALSE, "fallback",
      "Unable to submit form. Please email directly at richard@borderlessbits.com")]
    ELSE [h EXCEPT !.pc = "done", !.result = h.emailjsResult]

\* when sendContactEmail has settled, submitContactForm goes on to its return
ThenReturn(h) == IF h.pc = "emailDone" THEN submitContactFormReturn(h) ELSE h

\* submitContactForm, were it to go on to EmailJS whatever Netlify answered
submitContactFormFallbackAlways(h) ==
    IF h.netlifyResult.kind = "rejected"
    THEN [h EXCEPT !.pc = "done", !.result = h.netlifyResult]
    ELSE sendContactEmail([h EXCEPT !.emailjsCalls = @ + 1], 1)

\* submitContactForm after submitNetlifyForm settled
submitContactFormFallback(h) ==
    IF h.netlifyResult.kind = "rejected"
    THEN [h EXCEPT !.pc = "done", !.result = h.netlifyResult]
    ELSE IF h.netlifyResult.success
    THEN [h EXCEPT !.pc = "done", !.result = h.netlifyResult]
    ELSE sendContactEmail([h EXCEPT !.emailjsCalls = @ + 1], 1)

\* when submitNetlifyForm has settled, submitContactForm goes on
ThenFallback(h) == IF h.pc = "netlifyDone" THEN submitContactFormFallback(h) ELSE h

\* the catch block of submitNetlifyForm, were it to retry the fetch
submitNetlifyFormCatchRetry(h, error) ==
    IF h.fetchCalls < RetryMaxAttempts
    THEN [h EXCEPT !.pc = "netlifyFetch", !.fetchCalls = @ + 1]
    ELSE [h EXCEPT !.pc = "netlifyDone",
                   !.netlifyResult =
                       Resolved(FALSE, "netlify", getErrorMessage(error))]

\* catch block of submitNetlifyForm
submitNetlifyFormCatch(h, error) ==
    [h EXCEPT !.pc = "netlifyDone",
              !.netlifyResult =
                  Resolved(FALSE, "netlify", getErrorMessage(error))]

\* submitNetlifyForm, were it to skip the spam check
submitNetlifyFormUnchecked(h) ==
    [h EXCEPT !.pc = "netlifyFetch", !.fetchCalls = @ + 1]

\* submitNetlifyForm up to the call of fetch
submitNetlifyForm(h) ==
    IF isLikelySpam(formatFormDataForSubmission(h.formData))
    THEN [h EXCEPT !.pc = "netlifyDone",
                   !.netlifyResult =
                       Resolved(FALSE, "netlify",
                                "Submission rejected due to spam detection")]
    ELSE [h EXCEPT !.pc = "netlifyFetch", !.fetchCalls = @ + 1]

\* submitNetlifyForm after fetch settled
submitNetlifyFormSettle(h, outcome) ==
    CASE outcome = "ok" ->
           [h EXCEPT !.pc = "netlifyDone",
                     !.delivered = @ + 1,
                     !.netlifyResult =
                         Resolved(TRUE, "netlify", "Form submitted successfully")]
      [] outcome = "httpError" ->
           submitNetlifyFormCatch(h,
               ErrorValue(TRUE, "Netlify Forms error: 500 Internal Server Error", ""))
      [] OTHER ->
           submitNetlifyFormCatch(h, ErrorValue(TRUE, "Failed to fetch", ""))

\* submitContactForm(formData) up to its first pending call
submitContactForm(h) ==
    IF OnNetlify(hostname)
    THEN submitNetlifyForm(h)
    ELSE sendContactEmail([h EXCEPT !.emailjsCalls = @ + 1], 1)

(***************************************************************************)
(* ContactForm.tsx                                                         *)
(***************************************************************************)
\* const clientIP = 'client'
clientIP == "client"

\* Math.ceil(remainingTime / 1000 / 60)
CeilMinutes(ms) == (ms + 59999) \div 60000

RateLimitMessage(remainingTime) ==
    "Too many attempts. Please wait " \o ToString(CeilMinutes(remainingTime))
        \o " minutes."

\* the honeypot check, were it missing
HoneypotFilledNever(field) == FALSE

\* if (honeypotField)
HoneypotFilled(field) == field /= <<>>

\* the check of the validation errors, were it missing
HasErrorsNever(validationErrors) == FALSE

\* Object.keys(validationErrors).length > 0
HasErrors(validationErrors) == Cardinality(DOMAIN validationErrors) > 0

\* the controls, were they not disabled while submitting
ControlsEnabledAlways(store) == TRUE

\* the submit button and the inputs carry disabled={isSubmitting}
ControlsEnabled(store) == ~store.isSubmitting

\* JavaScript runs a handler to its next await before it takes another event
Running == \E h \in Handlers : handlers[h].pc = "try"

\* the invocation a submit event starts: the first one not in flight
FreeHandler(id) ==
    /\ handlers[id].pc = "idle"
    /\ \A h \in Handlers : h < id => handlers[h].pc /= "idle"

\* handleSubmit, were it to leave the status alone after a failed delivery
handleSubmitStatusStuck(result) ==
    IF result.kind = "resolved" /\ result.success
    THEN setStatus("success", "Thank you! Your message has been sent successfully.")
    ELSE setStatus("submitting", "")

\* handleSubmit after submitContactForm settled (or, by the catch block, threw)
handleSubmitStatus(result) ==
    IF result.kind = "rejected"
    THEN setStatus("error",
             IF result.error.isError THEN result.error.message
             ELSE "An unexpected error occurred. Please try again.")
    ELSE IF result.success
    THEN setStatus("success", "Thank you! Your message has been sent successfully.")
    ELSE setStatus("error", result.message)

\* handleSubmit, were it to reset the fields whatever the result
FinishResetting(id, h1) ==
    IF h1.pc = "done"
    THEN /\ handlers' = [handlers EXCEPT ![id] =
                              [HandlerInit EXCEPT
                                   !.result = h1.result,
                                   !.autoReplyFailed = h1.autoReplyFailed,
                                   !.delivered = h1.delivered]]
         /\ formStore' = handleSubmitStatus(h1.result)
         /\ formData' = initialFormData
         /\ errors' = IF h1.result.kind = "resolved" /\ h1.result.success
                      THEN NoErrors ELSE errors
         /\ lastEvent' = IF h1.result.kind = "rejected" THEN "exception"
                         ELSE IF h1.result.success THEN "success"
                         ELSE "deliveryFailed"
    ELSE /\ handlers' = [handlers EXCEPT ![id] = h1]
         /\ lastEvent' = h1.pc
         /\ UNCHANGED <<formStore, formData, errors>>

\* handleSubmit at the value h1 of the invocation: wait at the pending call,
\* or finish with the result of submitContactForm
Finish(id, h1) ==
    IF h1.pc = "done"
    THEN /\ handlers' = [handlers EXCEPT ![id] =
                              [HandlerInit EXCEPT
                                   !.result = h1.result,
                                   !.autoReplyFailed = h1.autoReplyFailed,
                                   !.delivered = h1.delivered]]
         /\ formStore' = handleSubmitStatus(h1.result)
         /\ formData' = IF h1.result.kind = "resolved" /\ h1.result.success
                        THEN initialFormData ELSE formData
         /\ errors' = IF h1.result.kind = "resolved" /\ h1.result.success
                      THEN NoErrors ELSE errors
         /\ lastEvent' = IF h1.result.kind = "rejected" THEN "exception"
                         ELSE IF h1.result.success THEN "success"
                         ELSE "deliveryFailed"
    ELSE /\ handlers' = [handlers EXCEPT ![id] = h1]
         /\ lastEvent' = h1.pc
         /\ UNCHANGED <<formStore, formData, errors>>

\* handleSubmit and submitContactForm go on from the value h1 an operator
\* of emailjs.ts returned
Proceed(id, h1) ==
    \E h2 \in {ThenFallback(h1)} : \E h3 \in {ThenReturn(h2)} : Finish(id, h3)

\* handleChange(field, value)
HandleChange(field, value) ==
    /\ ~Running
    /\ ControlsEnabled(formStore)
    /\ formData[field] /= value
    /\ formData' = [formData EXCEPT ![field] = value]
    /\ errors' = IF field \in DOMAIN errors /\ errors[field] /= ""
                 THEN [errors EXCEPT ![field] = ""]
                 ELSE errors
    /\ lastEvent' = "none"
    /\ UNCHANGED <<env, now, attempts, formStore, honeypotField, handlers>>

\* onChange of the honeypot input: setHoneypotField(value)
HoneypotChange(value) ==
    /\ ~Running
    /\ honeypotField /= value
    /\ honeypotField' = value
    /\ lastEvent' = "none"
    /\ UNCHANGED <<env, now, attempts, formStore, formData, errors, handlers>>

\* handleSubmit, from the submit event to setStatus('submitting')
HandleSubmit(id) ==
    /\ ~Running
    /\ ControlsEnabled(formStore)
    /\ FreeHandler(id)
    /\ IF HoneypotFilled(honeypotField)
       THEN /\ lastEvent' = "honeypotAbort"
            /\ UNCHANGED <<attempts, formStore, handlers>>
       ELSE /\ attempts' = isAllowedAttempts(attempts, clientIP, now,
                                             DefaultMaxAttempts, DefaultWindowMs)
            /\ IF ~isAllowed(attempts, clientIP, now,
                             DefaultMaxAttempts, DefaultWindowMs)
               THEN /\ formStore' = setStatus("error",
                           RateLimitMessage(
                               getRemainingTime(attempts', clientIP, now,
                                   DefaultMaxAttempts, DefaultWindowMs)))
                    /\ lastEvent' = "rateLimited"
                    /\ UNCHANGED handlers
               ELSE /\ formStore' = setStatus("submitting", "")
                    /\ handlers' = [handlers EXCEPT ![id] =
                           [HandlerInit EXCEPT !.pc = "try", !.admitted = TRUE]]
                    /\ lastEvent' = "submitting"
    /\ UNCHANGED <<env, now, formData, errors, honeypotField>>

\* handleSubmit, the try block up to the first pending call
HandleSubmitTry(id) ==
    /\ handlers[id].pc = "try"
    /\ \E sanitizedData \in {formatFormDataForSubmission(formData)} :
       \E validationErrors \in {validateContactForm(sanitizedData)} :
       LET h0 == [handlers[id] EXCEPT !.validationErrors = validationErrors]
       IN  IF HasErrors(validationErrors)
           THEN /\ errors' = validationErrors
                /\ formStore' = setStatus("error", "Please fix the errors above")
                /\ handlers' = [handlers EXCEPT ![id] = HandlerInit]
                /\ lastEvent' = "validationFailed"
                /\ UNCHANGED formData
           ELSE \E h1 \in {submitContactForm(
                                 [h0 EXCEPT !.formData = sanitizedData])} :
                    Proceed(id, h1)
    /\ UNCHANGED <<env, now, attempts, honeypotField>>

\* fetch('/') settles
FetchSettle(id, outcome) ==
    /\ ~Running
    /\ handlers[id].pc = "netlifyFetch"
    /\ \E h1 \in {submitNetlifyFormSettle(handlers[id], outcome)} : Proceed(id, h1)
    /\ UNCHANGED <<env, now, attempts, honeypotField>>

\* emailjs.send of the main email settles
SendSettle(id, outcome) ==
    /\ ~Running
    /\ handlers[id].pc = "emailSend"
    /\ \E h1 \in {sendContactEmailSettle(handlers[id], outcome)} : Proceed(id, h1)
    /\ UNCHANGED <<env, now, attempts, honeypotField>>

\* the auto-reply, were its rejection to reach the catch block of
\* sendContactEmail
AutoReplySettleCaught(id, outcome) ==
    /\ ~Running
    /\ handlers[id].pc = "autoReply"
    /\ \E h1 \in {IF outcome = "ok"
                   THEN sendContactEmailReturn(handlers[id], outcome)
                   ELSE sendContactEmailCatch(handlers[id],
                            ErrorValue(FALSE, "", "Bad Request"))} :
           Proceed(id, h1)
    /\ UNCHANGED <<env, now, attempts, honeypotField>>

\* emailjs.send of the auto-reply settles
AutoReplySettle(id, outcome) ==
    /\ ~Running
    /\ handlers[id].pc = "autoReply"
    /\ \E h1 \in {sendContactEmailReturn(handlers[id], outcome)} : Proceed(id, h1)
    /\ UNCHANGED <<env, now, attempts, honeypotField>>

\* the timer of sleep(delay) fires: sendContactEmail(formData, retryAttempt + 1)
SleepDone(id) ==
    /\ ~Running
    /\ handlers[id].pc = "sleep"
    /\ \E h1 \in {sendContactEmail(handlers[id], handlers[id].retryAttempt + 1)} :
           Proceed(id, h1)
    /\ UNCHANGED <<env, now, attempts, honeypotField>>

\* handleReset; the reset button carries disabled={isSubmitting}
HandleReset ==
    /\ ~Running
    /\ ControlsEnabled(formStore)
    /\ formData' = initialFormData
    /\ errors' = NoErrors
    /\ formStore' = resetForm
    /\ lastEvent' = "none"
    /\ UNCHANGED <<env, now, attempts, honeypotField, handlers>>

\* time passes
Tick ==
    /\ ~Running
    /\ now + TickMs <= MaxTicks * TickMs
    /\ now' = now + TickMs
    /\ lastEvent' = "none"
    /\ UNCHANGED <<env, attempts, formStore, formData, errors, honeypotField,
                   handlers>>

Next ==
    \/ \E c \in ChangeInputs : HandleChange(c[1], c[2])
    \/ \E v \in HoneypotInputs : HoneypotChange(v)
    \/ \E id \in Handlers : HandleSubmit(id)
    \/ \E id \in Handlers : HandleSubmitTry(id)
    \/ \E id \in Handlers : \E o \in FetchOutcomes : FetchSettle(id, o)
    \/ \E id \in Handlers : \E o \in SendOutcomes : SendSettle(id, o)
    \/ \E id \in Handlers : \E o \in SendOutcomes : AutoReplySettle(id, o)
    \/ \E id \in Handlers : SleepDone(id)
    \/ HandleReset
    \/ Tick

Spec == Init /\ [][Next]_vars

(***************************************************************************)
(* The RateLimiter on its own: direct calls of isAllowed with the default  *)
(* parameters under a clock that never goes back                           *)
(***************************************************************************)
IsAllowedCall(identifier) ==
    /\ attempts' = isAllowedAttempts(attempts, identifier, now,
                                     DefaultMaxAttempts, DefaultWindowMs)
    /\ lastCall' = [identifier |-> identifier, time |-> now,
                    allowed |-> isAllowed(attempts, identifier, now,
                                          DefaultMaxAttempts, DefaultWindowMs)]
    /\ accepted' = IF lastCall'.allowed
                   THEN [accepted EXCEPT ![identifier] = Append(@, now)]
                   ELSE accepted
    /\ call' = NoDirectCall
    /\ ret' = NotReturned
    /\ UNCHANGED <<hostname, emailjsConfig, autoReplyTemplateId, now, formStore,
                   formData, errors, honeypotField, handlers, lastEvent, deploy>>

\* rateLimiter.getRemainingTime(identifier) with the default parameters; ret
\* holds the value until the next call or the next move of the clock
GetRemainingTimeCall(identifier) ==
    /\ call' = [fn |-> "getRemainingTime", arg |-> identifier]
    /\ ret' = Returned(getRemainingTime(attempts, identifier, now,
                                        DefaultMaxAttempts, DefaultWindowMs))
    /\ UNCHANGED <<hostname, emailjsConfig, autoReplyTemplateId, now, attempts,
                   formStore, formData, errors, honeypotField, handlers,
                   lastEvent, accepted, lastCall, deploy>>

LimiterTick ==
    /\ now + LimiterTickMs <= LimiterMaxTicks * LimiterTickMs
    /\ now' = now + LimiterTickMs
    /\ call' = NoDirectCall
    /\ ret' = NotReturned
    /\ UNCHANGED <<hostname, emailjsConfig, autoReplyTemplateId, attempts,
                   formStore, formData, errors, honeypotField, handlers,
                   lastEvent, accepted, lastCall, deploy>>

LimiterNext ==
    \/ \E identifier \in Identifiers : IsAllowedCall(identifier)
    \/ \E identifier \in Identifiers : GetRemainingTimeCall(identifier)
    \/ LimiterTick

\* the form plays no part in the direct calls: one environment is enough
LimiterInit ==
    /\ Init
    /\ hostname = "borderlessbits.com"
    /\ emailjsConfig.templateId # ""
    /\ autoReplyTemplateId = ""

LimiterSpec == LimiterInit /\ [][LimiterNext]_vars

(***************************************************************************)
(* The functions of validation.ts on their own: one direct call, with its  *)
(* argument drawn from the sets below                                      *)
(***************************************************************************)
\* n times the letter a
Fill(n) == [i \in 1..n |-> "a"]

TextHeads ==
    { <<>>, <<" ">>, <<"\t", "\n">>, <<"<", "b", ">">>, <<"<">>,
      <<"a", " ", ">", " ">> }

TextTails ==
    { <<>>, <<" ", "b">>, <<" ", " ", "b", " ">>, <<"<", "/", "b", ">">>,
      <<">">>, <<"&">> }

\* the lengths of the filling between head and tail, up to the length cap
FillLengths == {0, 1, SanitizeMaxLength - 1, SanitizeMaxLength}

SanitizeInputs ==
    {Undefined} \cup
    {h \o Fill(n) \o t : h \in TextHeads, n \in FillLengths, t \in TextTails}

FixedForm ==
    /\ Init
    /\ hostname = "borderlessbits.com"
    /\ emailjsConfig.templateId # ""
    /\ autoReplyTemplateId = ""

FormUnchanged ==
    UNCHANGED <<hostname, emailjsConfig, autoReplyTemplateId, now, attempts,
                formStore, formData, errors, honeypotField, handlers, lastEvent,
                accepted, lastCall, deploy>>

\* sanitizeInput(input)
SanitizeInputCall ==
    /\ call.fn = "none"
    /\ \E input \in SanitizeInputs :
          /\ call' = [fn |-> "sanitizeInput", arg |-> input]
          /\ ret' = Returned(sanitizeInput(input))
    /\ FormUnchanged

\* the characters of a string literal of the source
Javascript == <<"j","a","v","a","s","c","r","i","p","t",":","a","l","e","r","t">>

OnClick == <<"o","n","c","l","i","c","k","=","x">>

InputTag == <<"<","i","n","p","u","t",">","h","e","l","l","o"," ","w","o","r","l","d">>

FormTag ==
    <<"<","f","o","r","m",">","h","e","l","l","o"," ","w","o","r","l","d","!",
      "<","/","f","o","r","m",">">>

\* a valid form, and the values that replace one of its fields
ValidForm ==
    [name |-> NameJo, email |-> EmailAB, company |-> Undefined,
     project_type |-> "cloud_architecture", project_timeline |-> "planning_phase",
     message |-> Message10, budget_range |-> NoEnum, referral_source |-> NoEnum]

FormNames == {NameJo, <<"J">>, Fill(NameMaxLength), Fill(NameMaxLength + 1),
              <<"J", "0">>}

FormEmails == {EmailAB, <<>>, <<"a", "b">>}

FormMessages ==
    {Message10, <<>>, Fill(MessageMinLength - 1), Fill(MessageMaxLength),
     Fill(MessageMaxLength + 1), Javascript}

FormCompanies == {Undefined, Fill(CompanyMaxLength), Fill(CompanyMaxLength + 1)}

ValidateFormInputs ==
    {[ValidForm EXCEPT !.name = n, !.email = e, !.message = m, !.company = c] :
        n \in FormNames, e \in FormEmails, m \in FormMessages,
        c \in FormCompanies}
    \cup
    {[ValidForm EXCEPT !.project_type = t, !.project_timeline = l,
                       !.budget_range = b, !.referral_source = r] :
        t \in {"cloud_architecture", "other", "bogus"},
        l \in {"planning_phase", "immediate", "bogus"},
        b \in {NoEnum, "under_25k", "bogus"},
        r \in {NoEnum, "linkedin", "bogus"}}

\* local parts, domains and whole addresses for validateField('email', ...)
EmailValues ==
    { EmailAB,
      <<"a", ".", ".", "b", "@", "c", ".", "c", "o">>,
      Fill(64) \o <<"@", "b", ".", "c", "o">>,
      Fill(65) \o <<"@", "b", ".", "c", "o">>,
      <<"a", "@">> \o Fill(63) \o <<".", "c", "o">>,
      <<"a", "@">> \o Fill(64) \o <<".", "c", "o">>,
      <<"a", "@", "-", "b", ".", "c", "o">>,
      <<"a", "@", "b", "-", ".", "c", "o">>,
      <<"a", "@", "b", ".", ".", "c", "o">>,
      Fill(EmailMaxLength - 5) \o <<"@", "b", ".", "c", "o">>,
      Fill(EmailMaxLength - 4) \o <<"@", "b", ".", "c", "o">> }

FieldValues ==
    EmailValues \cup {Javascript, OnClick, InputTag, FormTag, NameJo, Message10,
                      <<>>}

ValidateFieldInputs ==
    {[field |-> f, value |-> v] :
        f \in {"name", "email", "message", "company", "phone", "subject"},
        v \in FieldValues}

\* messages for isLikelySpam, each with the signals (1: links, 2: repeated
\* character, 3: spam phrase, 4: capitals) it is written to raise
Url == <<"h","t","t","p",":","/","/","x"," ">>

Urls == <<"h","t","t","p","s",":","/","/","y"," ">>

SpamMessages ==
    { [text |-> Message10, signals |-> {}],
      [text |-> Url \o Urls, signals |-> {}],
      [text |-> Url \o Urls \o Url, signals |-> {1}],
      [text |-> [i \in 1..10 |-> "x"], signals |-> {}],
      [text |-> [i \in 1..11 |-> "x"], signals |-> {2}],
      [text |-> <<"b","u","y"," ","n","o","w">>, signals |-> {3}],
      [text |-> <<"b","u","y"," ","n","o","w","s">>, signals |-> {}],
      [text |-> MessageSpam, signals |-> {3, 4}],
      [text |-> <<"A","B","c","d">>, signals |-> {}],
      [text |-> <<"A","B","C","d">>, signals |-> {4}],
      [text |-> Url \o Urls \o Url \o [i \in 1..11 |-> "x"], signals |-> {1, 2}] }

\* names and emails for isLikelySpam, with signal 6 and signal 5
SpamNames ==
    { [text |-> NameJo, signals |-> {}],
      [text |-> <<"J">>, signals |-> {6}],
      [text |-> <<"T","e","s","t">>, signals |-> {6}],
      [text |-> <<"t","e","s","t","e","r">>, signals |-> {}] }

SpamEmails ==
    { [text |-> EmailAB, signals |-> {}, digits |-> "none", noreply |-> "none"],
      [text |-> <<"1","2","3","4","5","@","b",".","c","o">>, signals |-> {5},
       digits |-> "beforeAt", noreply |-> "none"],
      [text |-> <<"1","2","3","4","@","b",".","c","o">>, signals |-> {},
       digits |-> "none", noreply |-> "none"],
      [text |-> <<"x","1","2","3","4","5","6","@","b",".","c","o">>,
       signals |-> {5}, digits |-> "beforeAt", noreply |-> "none"],
      [text |-> <<"1","2","3","4","5","a","@","b",".","c","o">>,
       signals |-> {}, digits |-> "inLocal", noreply |-> "none"],
      [text |-> <<"a","@","1","2","3","4","5",".","c","o">>,
       signals |-> {}, digits |-> "inDomain", noreply |-> "none"],
      [text |-> <<"N","o","R","e","p","l","y","@","b",".","c","o">>,
       signals |-> {5}, digits |-> "none", noreply |-> "local"],
      [text |-> <<"n","o","-","r","e","p","l","y","@","b",".","c","o">>,
       signals |-> {5}, digits |-> "none", noreply |-> "local"],
      [text |-> <<"a","@","n","o","r","e","p","l","y",".","c","o">>,
       signals |-> {5}, digits |-> "none", noreply |-> "domain"] }

\* digits and noreply tell where the address has a run of five digits and
\* where it has noreply or no-reply
SpamInputs ==
    {[data |-> [ValidForm EXCEPT !.name = n.text, !.email = e.text,
                                 !.message = m.text],
      signals |-> n.signals \cup e.signals \cup m.signals,
      digits |-> e.digits, noreply |-> e.noreply] :
        n \in SpamNames, e \in SpamEmails, m \in SpamMessages}

\* validateContactForm(data)
ValidateContactFormCall ==
    /\ call.fn = "none"
    /\ \E data \in ValidateFormInputs :
          /\ call' = [fn |-> "validateContactForm", arg |-> data]
          /\ ret' = Returned(validateContactForm(data))
    /\ FormUnchanged

\* validateField(field, value)
ValidateFieldCall ==
    /\ call.fn = "none"
    /\ \E a \in ValidateFieldInputs :
          /\ call' = [fn |-> "validateField", arg |-> a]
          /\ ret' = Returned(validateField(a.field, a.value))
    /\ FormUnchanged

\* isLikelySpam(data)
IsLikelySpamCall ==
    /\ call.fn = "none"
    /\ \E a \in SpamInputs :
          /\ call' = [fn |-> "isLikelySpam", arg |-> a]
          /\ ret' = Returned(isLikelySpam(a.data))
    /\ FormUnchanged

\* what the user has typed when the form is submitted
SubmissionMessages ==
    { Message10,
      <<"Q","&","A",":"," ","1","+","1","=","2"," ","o","k","?">>,
      <<" "," ","h","e","l","l","o"," "," "," ","w","o","r","l","d"," ">>,
      <<"<","b",">","h","e","l","l","o","<","/","b",">"," ","y","o","u"," ",
        "&"," ","m","e">>,
      Fill(SanitizeMaxLength - 1) \o <<" ", "b">>,
      Fill(MessageMinLength - 1),
      MessageSpam }

SubmissionInputs ==
    {[name |-> n, email |-> e, company |-> c,
      project_type |-> "cloud_architecture", project_timeline |-> l,
      message |-> m, budget_range |-> b, referral_source |-> r] :
        n \in {NameJo, <<" ","J","o"," "," ","A","n","n"," ">>},
        e \in {EmailAB, <<"A","@","B",".","C","O">>},
        c \in {Undefined, <<"R","&","D"," ","+"," ","C","o">>, <<" "," ">>},
        l \in {"planning_phase"},
        m \in SubmissionMessages,
        b \in {NoEnum, "under_25k"},
        r \in {NoEnum, "linkedin"}}

\* handleSubmit formats and validates the form data, and submitNetlifyForm
\* is called with the result: the body it posts, if it posts one
SubmitNetlifyFormCall ==
    /\ call.fn = "none"
    /\ \E input \in SubmissionInputs :
       \E sanitizedData \in {formatFormDataForSubmission(input)} :
       \E validationErrors \in {validateContactForm(sanitizedData)} :
       \E posted \in {/\ ~HasErrors(validationErrors)
                      /\ ~isLikelySpam(formatFormDataForSubmission(sanitizedData))} :
          /\ call' = [fn |-> "submitNetlifyForm", arg |-> input]
          /\ ret' = Returned([sanitizedData |-> sanitizedData,
                              validationErrors |-> validationErrors,
                              posted |-> posted,
                              body |-> IF posted THEN netlifyBody(sanitizedData)
                                       ELSE <<>>])
    /\ FormUnchanged

PureNext ==
    \/ SanitizeInputCall
    \/ ValidateContactFormCall
    \/ ValidateFieldCall
    \/ IsLikelySpamCall
    \/ SubmitNetlifyFormCall

PureSpec == FixedForm /\ [][PureNext]_vars

\* every pending call settles, every timer fires, and a handler that has
\* started runs on to its next await
Fairness ==
    /\ WF_vars(\E id \in Handlers : HandleSubmitTry(id))
    /\ WF_vars(\E id \in Handlers : \E o \in FetchOutcomes : FetchSettle(id, o))
    /\ WF_vars(\E id \in Handlers : \E o \in SendOutcomes : SendSettle(id, o))
    /\ WF_vars(\E id \in Handlers : \E o \in SendOutcomes : AutoReplySettle(id, o))
    /\ WF_vars(\E id \in Handlers : SleepDone(id))

FairSpec == Init /\ [][Next]_vars /\ Fairness

(***************************************************************************)
(* scripts/deploy.sh.  The variable deploy is the state of one run: the    *)
(* options, the environment, the directory out/ and the backups (by the    *)
(* version of the site they hold: v0 an older backup, v1 the build that    *)
(* was in out/ before the run, v2 the build of this run), what each target *)
(* serves, the position in main and the exit status                        *)
(***************************************************************************)
DeployTargets == {"github", "netlify", "vercel"}

\* the targets the case statements on $TARGET take
SelectedTargets(target) ==
    IF target = "all" THEN DeployTargets ELSE {target} \cap DeployTargets

\* exit with the status code
Exit(d, code) == [d EXCEPT !.pc = "exited", !.exitCode = code]

\* the result of a function: its return status and the state it leaves
Return(status, d) == [status |-> status, d |-> d]

\* the shell ending inside a function (set -u at an unset variable)
Abort(d) == Return(1, Exit(d, 1))

\* deploy_to_github_pages
deploy_to_github_pages(d) ==
    IF d.DRY_RUN THEN Return(0, d)
    ELSE IF "GITHUB_TOKEN" \notin d.tokens
    THEN Return(1, [d EXCEPT !.failed = @ \cup {"github"}])
    ELSE Return(0, d)

\* deploy_to_netlify; outcome is what the netlify command does.  Every call
\* of the function stands on the left of ||, where set -e is ignored in the
\* function body: after a failed command the function goes on to log_success
\* and returns 0.  With $ENVIRONMENT neither production nor staging the local
\* site_id stays unset and set -u ends the shell
deploy_to_netlify(d, outcome) ==
    IF d.DRY_RUN THEN Return(0, d)
    ELSE IF "NETLIFY_AUTH_TOKEN" \notin d.tokens
    THEN Return(1, [d EXCEPT !.failed = @ \cup {"netlify"}])
    ELSE IF d.ENVIRONMENT \notin {"production", "staging"}
    THEN Abort([d EXCEPT !.failed = @ \cup {"netlify"}])
    ELSE IF "NETLIFY_SITE_ID" \notin d.tokens
    THEN Return(1, [d EXCEPT !.failed = @ \cup {"netlify"}])
    ELSE IF outcome = "ok" /\ d.out /= "none"
    THEN Return(0, [d EXCEPT !.remote["netlify"] = d.out])
    ELSE Return(0, [d EXCEPT !.failed = @ \cup {"netlify"}])

\* deploy_to_vercel; the vercel command sends the project directory, not out/
deploy_to_vercel(d, outcome) ==
    IF d.DRY_RUN THEN Return(0, d)
    ELSE IF "VERCEL_TOKEN" \notin d.tokens
    THEN Return(1, [d EXCEPT !.failed = @ \cup {"vercel"}])
    ELSE IF outcome = "ok"
    THEN Return(0, [d EXCEPT !.remote["vercel"] = "project"])
    ELSE Return(0, [d EXCEPT !.failed = @ \cup {"vercel"}])

\* the backup the file latest names: v0expired is a backup v0 more than
\* MAX_BACKUP_DAYS old, missing a name whose directory is gone
BackupContent(latest) == IF latest = "v0expired" THEN "v0" ELSE latest

\* create_backup: copy out/ and name the copy in latest, then remove the
\* backups older than MAX_BACKUP_DAYS
create_backup(d) ==
    IF d.out /= "none"
    THEN [d EXCEPT !.latest = d.out]
    ELSE [d EXCEPT !.latest = IF @ = "v0expired" THEN "missing" ELSE @]

\* a step of rollback_deployment: the target's function when $TARGET takes
\* it, its status ignored (|| log_error)
Redeploy(r, target, result(_)) ==
    IF r.d.pc = "exited" \/ target \notin SelectedTargets(r.d.TARGET)
    THEN r
    ELSE LET called == [r.d EXCEPT !.redeployed = @ \cup {target}]
         IN  result(called)

\* rollback_deployment, then the exit of its caller with the status after
rollback_deployment(d, netlify, vercel, after) ==
    IF d.latest \in {"none", "missing"}
    THEN Exit(d, 1)
    ELSE LET restored == [d EXCEPT !.out = BackupContent(d.latest),
                                   !.restored = TRUE]
             g == Redeploy(Return(0, restored), "github",
                           LAMBDA x : deploy_to_github_pages(x))
             n == Redeploy(g, "netlify", LAMBDA x : deploy_to_netlify(x, netlify))
             v == Redeploy(n, "vercel", LAMBDA x : deploy_to_vercel(x, vercel))
         IN  IF v.d.pc = "exited" THEN v.d ELSE Exit(v.d, after)

\* main after a failure: rollback unless --force, and exit 1
AfterFailure(d, netlify, vercel) ==
    IF ~d.FORCE THEN rollback_deployment(d, netlify, vercel, 1) ELSE Exit(d, 1)

\* the options, the environment and the files of a run
DeployRuns ==
    {[pc |-> "main",
      ENVIRONMENT |-> e, TARGET |-> t, SKIP_TESTS |-> st, SKIP_BUILD |-> sb,
      DRY_RUN |-> dr, FORCE |-> f, ROLLBACK |-> r,
      tokens |-> k, out |-> o, latest |-> l,
      remote |-> [x \in DeployTargets |-> "v1"],
      deployment_errors |-> {}, exitCode |-> -1, reported |-> FALSE,
      failed |-> {}, health |-> "none", restored |-> FALSE, redeployed |-> {}] :
        e \in {"production", "bogus"},
        t \in {"github", "netlify", "vercel", "all"},
        st \in BOOLEAN, sb \in BOOLEAN, dr \in BOOLEAN, f \in BOOLEAN,
        r \in BOOLEAN,
        k \in {{}, {"GITHUB_TOKEN"},
               {"GITHUB_TOKEN", "NETLIFY_AUTH_TOKEN", "VERCEL_TOKEN"},
               {"GITHUB_TOKEN", "NETLIFY_AUTH_TOKEN", "NETLIFY_SITE_ID",
                "VERCEL_TOKEN"}},
        o \in {"none", "v1"},
        l \in {"none", "v0", "v0expired"}}

DeployInit ==
    /\ hostname = "borderlessbits.com"
    /\ emailjsConfig \in {c \in EmailjsConfigs : c.templateId /= ""}
    /\ autoReplyTemplateId = ""
    /\ now = 0
    /\ attempts = <<>>
    /\ formStore = FormStoreInit
    /\ formData = initialFormData
    /\ errors = NoErrors
    /\ honeypotField = <<>>
    /\ handlers = [h \in Handlers |-> HandlerInit]
    /\ lastEvent = "none"
    /\ accepted = [i \in Identifiers |-> <<>>]
    /\ lastCall = NoCall
    /\ call = NoDirectCall
    /\ ret = NotReturned
    /\ deploy \in DeployRuns

DeployFrame ==
    UNCHANGED <<hostname, emailjsConfig, autoReplyTemplateId, now, attempts,
                formStore, formData, errors, honeypotField, handlers, lastEvent,
                accepted, lastCall, call, ret>>

\* main up to the choice between the rollback and the deployment
Main ==
    /\ deploy.pc = "main"
    /\ deploy' = [deploy EXCEPT !.pc = IF deploy.ROLLBACK THEN "rollback"
                                       ELSE "validate_environment"]
    /\ DeployFrame

\* --rollback: rollback_deployment and exit 0
ManualRollback(netlify, vercel) ==
    /\ deploy.pc = "rollback"
    /\ deploy' = rollback_deployment(deploy, netlify, vercel, 0)
    /\ DeployFrame

\* validate_environment, check_dependencies (a missing tool ends the run) and
\* create_backup
Prepare(dependencies) ==
    /\ deploy.pc = "validate_environment"
    /\ deploy' = IF deploy.ENVIRONMENT \notin {"production", "staging"}
                 THEN Exit(deploy, 1)
                 ELSE IF dependencies = "missing" THEN Exit(deploy, 1)
                 ELSE [create_backup(deploy) EXCEPT !.pc = "run_quality_gates"]
    /\ DeployFrame

\* run_quality_gates: a failing npm command ends the run (set -e), a failing
\* audit ends it unless --force
RunQualityGates(outcome) ==
    /\ deploy.pc = "run_quality_gates"
    /\ deploy' = IF deploy.SKIP_TESTS \/ outcome = "ok"
                    \/ (outcome = "auditFailed" /\ deploy.FORCE)
                 THEN [deploy EXCEPT !.pc = "build_application"]
                 ELSE Exit(deploy, 1)
    /\ DeployFrame

\* build_application: npm run build writes out/; a failing build, or one that
\* leaves no out/index.html, ends the run
BuildApplication(outcome) ==
    /\ deploy.pc = "build_application"
    /\ deploy' = IF deploy.SKIP_BUILD
                 THEN [deploy EXCEPT !.pc = "deploy"]
                 ELSE IF outcome = "ok"
                 THEN [deploy EXCEPT !.pc = "deploy", !.out = "v2"]
                 ELSE Exit(deploy, 1)
    /\ DeployFrame

\* one of the three case statements of main: the function of the target, and
\* its name appended to deployment_errors when it returns non-zero
DeployStep(d, target, r) ==
    IF target \notin SelectedTargets(d.TARGET) THEN d
    ELSE IF r.d.pc = "exited" THEN r.d
    ELSE IF r.status /= 0
    THEN [r.d EXCEPT !.deployment_errors = @ \cup {target}]
    ELSE r.d

\* main: the deployments, and the check of deployment_errors
Deploy(netlify, vercel, netlifyAgain, vercelAgain) ==
    /\ deploy.pc = "deploy"
    /\ \E g \in {DeployStep(deploy, "github", deploy_to_github_pages(deploy))} :
       \E n \in {IF g.pc = "exited" THEN g
                 ELSE DeployStep(g, "netlify", deploy_to_netlify(g, netlify))} :
       \E v \in {IF n.pc = "exited" THEN n
                 ELSE DeployStep(n, "vercel", deploy_to_vercel(n, vercel))} :
          deploy' = IF v.pc = "exited" THEN v
                    ELSE IF v.deployment_errors /= {}
                    THEN AfterFailure(v, netlifyAgain, vercelAgain)
                    ELSE [v EXCEPT !.pc = "validate_deployment"]
    /\ DeployFrame

\* the URLs validate_deployment checks
DeployUrls == {"/", "/contact"}

\* main: validate_deployment (failed_urls are the URLs that did not answer
\* 200 in five attempts), then the rollback or the report of success
ValidateDeployment(failed_urls, netlify, vercel) ==
    /\ deploy.pc = "validate_deployment"
    /\ deploy' = IF failed_urls /= {}
                 THEN AfterFailure([deploy EXCEPT !.health = "failed"],
                                   netlify, vercel)
                 ELSE Exit([deploy EXCEPT !.health = "ok", !.reported = TRUE], 0)
    /\ DeployFrame

CommandOutcomes == {"ok", "failed"}

DeployNext ==
    \/ Main
    \/ \E n \in CommandOutcomes, v \in CommandOutcomes : ManualRollback(n, v)
    \/ \E dependencies \in {"found", "missing"} : Prepare(dependencies)
    \/ \E o \in {"ok", "failed", "auditFailed"} : RunQualityGates(o)
    \/ \E o \in CommandOutcomes : BuildApplication(o)
    \/ \E n \in CommandOutcomes, v \in CommandOutcomes,
          na \in CommandOutcomes, va \in CommandOutcomes : Deploy(n, v, na, va)
    \/ \E u \in SUBSET DeployUrls, n \in CommandOutcomes, v \in CommandOutcomes :
          ValidateDeployment(u, n, v)

DeploySpec == DeployInit /\ [][DeployNext]_vars

(***************************************************************************)
(* Properties                                                              *)
(***************************************************************************)
\* the invocations of handleSubmit that are between their start and their end
InFlight == {id \in Handlers : handlers[id].pc /= "idle"}

\* the invocations inside submitContactForm
Delivering == {id \in Handlers : handlers[id].pc \notin {"idle", "try"}}

DirectEmailMessage ==
    "Unable to submit form. Please email directly at richard@borderlessbits.com"

\* C1: an invocation of handleSubmit is inside submitContactForm only if the
\* rate limiter admitted it and validateContactForm returned no error on the
\* sanitized data it delivers; and when validation returned errors the status
\* is error, the field errors are shown and nothing is being delivered
C1_DeliveryOnlyAfterChecks ==
    /\ \A id \in Delivering :
          /\ handlers[id].admitted
          /\ DOMAIN handlers[id].validationErrors = {}
          /\ DOMAIN validateContactForm(handlers[id].formData) = {}
          /\ Len(MapGet(attempts, clientIP)) > 0
    /\ lastEvent = "validationFailed" =>
          /\ formStore.submitStatus = "error"
          /\ DOMAIN errors /= {}
          /\ Delivering = {}

C1_Witness ==
    /\ Delivering /= {}
    /\ \E id \in Delivering : handlers[id].formData.name = NameJo

\* the timestamps isAllowed accepted for the identifier of the last call
\* before that call
AcceptedBefore ==
    LET log == accepted[lastCall.identifier]
    IN  IF lastCall.allowed THEN SubSeq(log, 1, Len(log) - 1) ELSE log

\* C2: with the default parameters a call of isAllowed returns true exactly
\* when fewer than 5 of the calls it accepted before for that identifier are
\* less than 300000 ms old; the rejected calls do not count
C2_SlidingWindow ==
    lastCall.identifier /= "" =>
        lastCall.allowed =
            (Cardinality({i \in DOMAIN AcceptedBefore :
                             lastCall.time - AcceptedBefore[i] < 300000}) < 5)

\* the sixth call is accepted at the moment the five accepted at time 0 are
\* windowMs old, after a call in between was rejected
C2_Witness ==
    /\ lastCall.allowed
    /\ lastCall.time >= 300000
    /\ Len(accepted[lastCall.identifier]) = 6
    /\ accepted[lastCall.identifier][5] = 0

\* C3: the primary provider is not retried: one call of submitContactForm
\* issues at most one fetch, and calls sendContactEmail at most once, on
\* Netlify only after submitNetlifyForm has resolved to a failure
C3_PrimaryOnceThenFallback ==
    \A id \in Handlers :
        /\ handlers[id].fetchCalls <= 1
        /\ handlers[id].emailjsCalls <= 1
        /\ handlers[id].pc = "netlifyFetch" => handlers[id].emailjsCalls = 0
        /\ (handlers[id].emailjsCalls = 1 /\ OnNetlify(hostname)) =>
              /\ handlers[id].netlifyResult.kind = "resolved"
              /\ ~handlers[id].netlifyResult.success
        /\ handlers[id].pc \in {"emailSend", "sleep", "autoReply"} =>
              handlers[id].emailjsCalls = 1

C3_Witness ==
    \E id \in Handlers :
        /\ OnNetlify(hostname)
        /\ handlers[id].pc = "emailSend"
        /\ handlers[id].fetchCalls = 1
        /\ handlers[id].emailjsCalls = 1
        /\ handlers[id].sendCalls = 3

\* C3 as stated: the fallback adapter is called only after the primary
\* provider has been tried 3 times
C3_PrimaryRetried ==
    \A id \in Handlers :
        (handlers[id].emailjsCalls > 0 /\ handlers[id].fetchCalls > 0) =>
            handlers[id].fetchCalls = 3

\* C4: one call of sendContactEmail issues at most 3 sends of the main
\* email; after a send that succeeded it sends nothing but the auto-reply and
\* returns success; it returns a failure after a rejected send only when that
\* was the third one, and it does not sleep after the third
C4_AtMostThreeSends ==
    [][\A id \in Handlers :
          /\ handlers'[id].sendCalls <= 3
          /\ handlers'[id].retryAttempt <= 3
          /\ Len(handlers'[id].sleeps) <= 2
          /\ handlers'[id].sendCalls > handlers[id].sendCalls =>
                handlers[id].pc \in {"idle", "try", "netlifyFetch", "sleep"}
          /\ (handlers[id].pc = "autoReply" /\ handlers'[id] /= handlers[id]) =>
                /\ handlers'[id].pc = "idle"
                /\ handlers'[id].result.success
          /\ (handlers[id].pc = "emailSend" /\ handlers'[id].pc = "idle"
                 /\ ~handlers'[id].result.success) =>
                handlers[id].sendCalls = 3
          /\ (handlers[id].pc = "emailSend" /\ handlers[id].sendCalls = 3) =>
                handlers'[id].pc \in {"emailSend", "autoReply", "idle"}
          /\ (handlers[id].pc = "emailSend" /\ handlers[id].sendCalls < 3) =>
                handlers'[id].pc \in {"emailSend", "autoReply", "idle", "sleep"}
          /\ (handlers[id].pc = "emailSend" /\ handlers[id].sendCalls < 3
                 /\ handlers'[id].pc = "idle") =>
                handlers'[id].result.success
      ]_vars

C4_Witness ==
    /\ lastEvent = "deliveryFailed"
    /\ validateEmailJSConfig(emailjsConfig)
    /\ \E id \in Handlers : handlers[id].result.service = "fallback"
    /\ ~isLikelySpam(formData)

\* C5: a result of submitContactForm with success false has the service
\* fallback and the message that names the direct email address, and when
\* handleSubmit ends with such a result the status is error with that message
C5_FailureIsFallback ==
    /\ \A id \in Handlers :
          (handlers[id].result.kind = "resolved" /\ ~handlers[id].result.success) =>
              /\ handlers[id].result.service = "fallback"
              /\ handlers[id].result.message = DirectEmailMessage
    /\ lastEvent = "deliveryFailed" =>
          /\ formStore.submitStatus = "error"
          /\ formStore.errorMessage = DirectEmailMessage
          /\ \E id \in Handlers :
                /\ handlers[id].result.kind = "resolved"
                /\ ~handlers[id].result.success

C5_Witness ==
    /\ lastEvent = "deliveryFailed"
    /\ formStore.errorMessage = DirectEmailMessage
    /\ OnNetlify(hostname)

\* C6: a submission that set the status to submitting eventually sets it to
\* success or to error
C6_SubmittingEnds ==
    (formStore.submitStatus = "submitting")
        ~> (formStore.submitStatus \in {"success", "error"})

C6_Witness ==
    /\ formStore.submitStatus = "submitting"
    /\ \E id \in Handlers : handlers[id].pc = "sleep"

\* C7: submitNetlifyForm, sendContactEmail and submitContactForm resolve to a
\* result whatever the provider call did, none of them rejects, and when
\* handleSubmit ends in its catch block the status is error
C7_NeverRejects ==
    /\ \A id \in Handlers :
          /\ handlers[id].netlifyResult.kind /= "rejected"
          /\ handlers[id].emailjsResult.kind /= "rejected"
          /\ handlers[id].result.kind /= "rejected"
          /\ handlers[id].pc \in {"emailSend", "sleep", "autoReply"}
                 /\ OnNetlify(hostname) =>
                handlers[id].netlifyResult.kind = "resolved"
    /\ lastEvent = "exception" => formStore.submitStatus = "error"
    /\ lastEvent \in {"success", "deliveryFailed"} =>
          \E id \in Handlers : handlers[id].result.kind = "resolved"

\* fetch threw, both sends of the main email so far were rejected, and the
\* adapters still went on
C7_Witness ==
    \E id \in Handlers :
        /\ handlers[id].netlifyResult.kind = "resolved"
        /\ handlers[id].netlifyResult.message = "Failed to fetch"
        /\ handlers[id].pc = "sleep"
        /\ handlers[id].sendCalls = 2

StatusStep == <<formStore.submitStatus, formStore'.submitStatus>>

\* C8: the status changes only by idle->submitting, submitting->success,
\* submitting->error, by idle->error and success->error when the rate limiter
\* rejects the submit, by success->submitting and error->submitting when a
\* submit is admitted, and by success->idle and error->idle, these two only
\* through handleReset
C8_StatusTransitions ==
    [][formStore'.submitStatus /= formStore.submitStatus =>
          /\ StatusStep \in
                {<<"idle", "submitting">>, <<"submitting", "success">>,
                 <<"submitting", "error">>, <<"idle", "error">>,
                 <<"success", "error">>, <<"success", "submitting">>,
                 <<"error", "submitting">>, <<"success", "idle">>,
                 <<"error", "idle">>}
          /\ formStore'.submitStatus = "idle" =>
                (formData' = initialFormData /\ errors' = NoErrors
                                             /\ lastEvent' = "none")
          /\ StatusStep \in {<<"idle", "error">>, <<"success", "error">>} =>
                lastEvent' = "rateLimited"
          /\ formStore'.submitStatus = "submitting" => lastEvent' = "submitting"
      ]_vars

\* the rate limiter rejected a submit: the status is error and no invocation
\* has ever run to an end, so submitting was not passed through
C8_Witness ==
    /\ lastEvent = "rateLimited"
    /\ formStore.submitStatus = "error"
    /\ errors = NoErrors
    /\ formData = initialFormData

\* C8 as stated: the status changes only by idle->submitting,
\* submitting->success, submitting->error, success->idle and error->idle
C8_OnlyFiveTransitions ==
    [][formStore'.submitStatus /= formStore.submitStatus =>
          StatusStep \in
              {<<"idle", "submitting">>, <<"submitting", "success">>,
               <<"submitting", "error">>, <<"success", "idle">>,
               <<"error", "idle">>}
      ]_vars

C10_HoneypotSilent ==
    [][((\E id \in Handlers : HandleSubmit(id)) /\ honeypotField /= <<>>) =>
          /\ UNCHANGED <<formStore, errors, attempts, handlers, formData>>
          /\ lastEvent' = "honeypotAbort"
      ]_vars

C10_Witness ==
    /\ lastEvent = "honeypotAbort"
    /\ honeypotField /= <<>>
    /\ formStore.submitStatus = "idle"
    /\ formData.name = NameJo

SpamMessage == "Submission rejected due to spam detection"

C12_ConfigFailsFast ==
    ~validateEmailJSConfig(emailjsConfig) =>
        \A id \in Handlers :
            /\ handlers[id].sendCalls = 0
            /\ handlers[id].retryAttempt = 1
            /\ handlers[id].sleeps = <<>>
            /\ handlers[id].pc /= "sleep"

\* C13: once the main email is sent, sendContactEmail returns success
\* whatever the auto-reply does: it does not send the main email again and
\* does not sleep; without an auto-reply template no auto-reply is sent
C13_AutoReplyFailureSwallowed ==
    [][\A id \in Handlers :
          /\ (handlers[id].pc = "autoReply" /\ handlers'[id] /= handlers[id]) =>
                /\ handlers'[id].pc = "idle"
                /\ handlers'[id].result =
                       Resolved(TRUE, "emailjs", "Email sent successfully")
                /\ formStore'.submitStatus = "success"
          /\ handlers'[id].pc = "autoReply" =>
                /\ handlers'[id].autoReplyCalls = 1
                /\ handlers[id].pc \in {"emailSend", "autoReply"}
          /\ handlers'[id].autoReplyFailed =>
                (handlers'[id].pc = "idle" /\ handlers'[id].result.success)
          /\ autoReplyTemplateId = "" =>
                (handlers'[id].autoReplyCalls = 0
                    /\ handlers'[id].pc /= "autoReply")
      ]_vars

\* the main email went out at the third send and the auto-reply was rejected
C13_Witness ==
    /\ lastEvent = "success"
    /\ \E id \in Handlers :
          /\ handlers[id].autoReplyFailed
          /\ handlers[id].result.success
          /\ handlers[id].result.service = "emailjs"

\* an invocation of handleSubmit ends in this step with a success
SucceedsNow(id) ==
    /\ handlers[id].pc /= "idle"
    /\ handlers'[id].pc = "idle"
    /\ handlers'[id].result.kind = "resolved"
    /\ handlers'[id].result.success

\* C14: when a submission succeeds the status becomes success and the form
\* fields are reset; the confirmation email is attempted only on the EmailJS
\* path with an auto-reply template configured, never after a success of the
\* Netlify form endpoint
C14_SuccessResetsForm ==
    [][\A id \in Handlers : SucceedsNow(id) =>
          /\ formStore'.submitStatus = "success"
          /\ formStore'.errorMessage =
                 "Thank you! Your message has been sent successfully."
          /\ formData' = initialFormData
          /\ errors' = NoErrors
          /\ handlers'[id].result.service \in {"netlify", "emailjs"}
          /\ handlers'[id].result.service = "netlify" =>
                /\ handlers[id].pc = "netlifyFetch"
                /\ handlers[id].autoReplyCalls = 0
                /\ handlers[id].sendCalls = 0
          /\ handlers'[id].result.service = "emailjs" =>
                IF autoReplyTemplateId = ""
                THEN /\ handlers[id].pc = "emailSend"
                     /\ handlers[id].autoReplyCalls = 0
                ELSE /\ handlers[id].pc = "autoReply"
                     /\ handlers[id].autoReplyCalls = 1
      ]_vars

\* the Netlify form endpoint took the submission while an auto-reply template
\* is configured
C14_Witness ==
    /\ lastEvent = "success"
    /\ formStore.submitStatus = "success"
    /\ formData = initialFormData
    /\ autoReplyTemplateId /= ""
    /\ \E id \in Handlers : handlers[id].result.service = "netlify"

\* C14 as stated: whenever a submission succeeds, a confirmation email to the
\* submitter has been attempted
C14_ConfirmationAlwaysAttempted ==
    [][\A id \in Handlers : SucceedsNow(id) =>
          /\ formStore'.submitStatus = "success"
          /\ formData' = initialFormData
          /\ handlers[id].autoReplyCalls >= 1
      ]_vars

\* C15: sanitizeInput applied to what sanitizeInput returned returns it
\* unchanged
C15_SanitizeIdempotent ==
    (call.fn = "sanitizeInput" /\ ret.returned) =>
        sanitizeInput(ret.value) = ret.value

\* C16: sanitizeInput returns at most 2000 characters, none of them "<" or
\* ">", and the empty string for an empty or absent input
C16_SanitizeNoAngleBrackets ==
    (call.fn = "sanitizeInput" /\ ret.returned) =>
        /\ Len(ret.value) <= 2000
        /\ \A i \in DOMAIN ret.value : ret.value[i] \notin {"<", ">"}
        /\ call.arg \in {<<>>, Undefined} => ret.value = <<>>

\* the rules of C17 on the fields of a form
NameRule(v) == v /= <<>> /\ Len(v) >= 2 /\ Len(v) <= 100 /\ NAME_REGEX(v)

EmailRule(v) == v /= <<>> /\ EMAIL_REGEX(v) /\ Len(v) <= 254

MessageRule(v) ==
    v /= <<>> /\ Len(v) >= 10 /\ Len(v) <= 2000 /\ ~SUSPICIOUS_PATTERNS(v)

FormRules(data) ==
    /\ NameRule(data.name)
    /\ EmailRule(data.email)
    /\ MessageRule(data.message)
    /\ Falsy(data.company) \/ Len(data.company) <= 200
    /\ data.project_type \in
           {"cloud_architecture", "healthcare_software", "enterprise_consulting",
            "other"}
    /\ data.project_timeline \in
           {"immediate", "within_3_months", "within_6_months", "planning_phase"}
    /\ data.budget_range = NoEnum \/ data.budget_range \in
           {"under_25k", "from_25k_to_50k", "from_50k_to_100k", "over_100k"}
    /\ data.referral_source = NoEnum \/ data.referral_source \in
           {"google_search", "linkedin", "referral", "other"}

\* C17: validateContactForm returns the empty error map exactly when name,
\* email and message are present and pass their rules (name 2 to 100
\* characters, message 10 to 2000 characters), company has at most 200
\* characters, and the choice fields hold allowed values
C17_EmptyIffRules ==
    (call.fn = "validateContactForm" /\ ret.returned) =>
        ((DOMAIN ret.value = {}) <=> FormRules(call.arg))

\* the local part and the domain of an address with one "@"
LocalPart(e) == SubSeq(e, 1, (CHOOSE a \in DOMAIN e : e[a] = "@") - 1)

DomainPart(e) == SubSeq(e, (CHOOSE a \in DOMAIN e : e[a] = "@") + 1, Len(e))

\* 64 characters in a row without a dot
HasLongLabel(d) ==
    \E i \in 1..(Len(d) - 63) : \A k \in i..(i + 63) : d[k] /= "."

HasHyphenEdge(d) ==
    \/ d /= <<>> /\ (d[1] = "-" \/ d[Len(d)] = "-")
    \/ Includes(d, <<"-", ".">>)
    \/ Includes(d, <<".", "-">>)

\* the addresses C18 names
BadEmail(e) ==
    \/ Len(e) > 254
    \/ Includes(e, <<".", ".">>)
    \/ /\ Includes(e, <<"@">>)
       /\ \/ Len(LocalPart(e)) > 64
          \/ HasLongLabel(DomainPart(e))
          \/ HasHyphenEdge(DomainPart(e))

\* C18: validateField reports an error on an email whose local part is
\* longer than 64 characters, that has two dots in a row, that has a domain
\* label longer than 63 characters or with a hyphen at its start or end, or
\* that is longer than 254 characters
C18_BadEmailRejected ==
    (call.fn = "validateField" /\ ret.returned /\ call.arg.field = "email"
        /\ BadEmail(call.arg.value)) =>
        ret.value /= Null

InvalidCharactersMessage ==
    "Invalid characters detected. Please remove any HTML or script content."

\* C19: for every field name, validateField returns the generic message for
\* a value that matches a suspicious-content pattern
C19_SuspiciousShortCircuits ==
    (call.fn = "validateField" /\ ret.returned
        /\ SUSPICIOUS_PATTERNS(call.arg.value)) =>
        ret.value = InvalidCharactersMessage

\* C20: isLikelySpam returns true exactly when at least two of its six
\* indicators hold, and each indicator holds exactly for the inputs written
\* to raise it
C20_SpamIffTwoSignals ==
    (call.fn = "isLikelySpam" /\ ret.returned) =>
        /\ ret.value = (Cardinality(call.arg.signals) >= 2)
        /\ \A i \in 1..6 :
              spamIndicators(call.arg.data)[i] = (i \in call.arg.signals)

\* one indicator alone (the capitals) and the answer is false
C20_Witness ==
    /\ call.fn = "isLikelySpam"
    /\ ret.returned
    /\ call.arg.signals = {4}
    /\ ret.value = FALSE

\* C21 as stated: the email indicator holds exactly when the local part has
\* a run of five digits anywhere in it or has noreply / no-reply in it
C21_EmailSignalLocalPart ==
    (call.fn = "isLikelySpam" /\ ret.returned) =>
        spamIndicators(call.arg.data)[5] =
            (\/ call.arg.digits \in {"beforeAt", "inLocal"}
             \/ call.arg.noreply = "local")

\* C21: the email indicator holds exactly when a run of five digits stands
\* right before an @ or the address has noreply / no-reply anywhere, the
\* domain included; with one other indicator it decides the answer
C21_EmailSignal ==
    (call.fn = "isLikelySpam" /\ ret.returned) =>
        LET fires == \/ call.arg.digits = "beforeAt"
                     \/ call.arg.noreply \in {"local", "domain"}
        IN  /\ spamIndicators(call.arg.data)[5] = fires
            /\ Cardinality(call.arg.signals \ {5}) = 1 => ret.value = fires

\* the digits of the local part are not next to the @, the name alone is
\* generic, and the answer is false
C21_Witness ==
    /\ call.fn = "isLikelySpam"
    /\ ret.returned
    /\ call.arg.digits = "inLocal"
    /\ call.arg.signals = {6}
    /\ ret.value = FALSE

\* the field of a decoded body, the empty text when the body has no such field
DecodedField(fields, name) ==
    IF name \in DOMAIN fields THEN fields[name] ELSE <<>>

\* an enum value as the text of a body field
EnumText(v) == IF v = NoEnum THEN <<>> ELSE <<v>>

\* the text of an optional field
TextOf(v) == IF Falsy(v) THEN <<>> ELSE v

\* the fields of the body are the values of the sanitized submission
DeliversValidated(sanitizedData, fields) ==
    /\ DecodedField(fields, "name") = sanitizedData.name
    /\ DecodedField(fields, "email") = sanitizedData.email
    /\ DecodedField(fields, "company") = TextOf(sanitizedData.company)
    /\ DecodedField(fields, "project-type") = EnumText(sanitizedData.project_type)
    /\ DecodedField(fields, "project-timeline") =
           EnumText(sanitizedData.project_timeline)
    /\ DecodedField(fields, "message") = sanitizedData.message
    /\ DecodedField(fields, "budget-range") = EnumText(sanitizedData.budget_range)
    /\ DecodedField(fields, "referral-source") =
           EnumText(sanitizedData.referral_source)

\* C22: the body submitNetlifyForm posts decodes to the field values of the
\* sanitized submission that handleSubmit validated
C22_DeliveredIsValidated ==
    (call.fn = "submitNetlifyForm" /\ ret.returned /\ ret.value.posted) =>
        DeliversValidated(ret.value.sanitizedData, UrlDecodeBody(ret.value.body))

\* the accepted timestamps of identifier that are less than windowMs older
\* than t
InWindow(identifier, t) ==
    {i \in DOMAIN accepted[identifier] :
        t - accepted[identifier][i] < DefaultWindowMs}

\* the timestamps the limiter keeps for identifier: those that were inside
\* the window when it accepted a call for the last time
Kept(identifier) ==
    LET log == accepted[identifier]
    IN  IF log = <<>> THEN {} ELSE InWindow(identifier, log[Len(log)])

\* the oldest of the timestamps of identifier numbered by the set of indices
Oldest(identifier, indices) ==
    accepted[identifier][CHOOSE i \in indices : \A j \in indices : i <= j]

\* getRemainingTime was called right after isAllowed rejected the identifier
AfterRejection ==
    /\ call.fn = "getRemainingTime"
    /\ ret.returned
    /\ lastCall.identifier = call.arg
    /\ lastCall.time = now
    /\ ~lastCall.allowed

\* C23 as stated: the remaining time is windowMs minus the age of the oldest
\* timestamp still inside the window, 0 when fewer than maxAttempts are
\* recorded
C23_RemainingOfOldestInWindow ==
    (call.fn = "getRemainingTime" /\ ret.returned) =>
        IF Len(MapGet(attempts, call.arg)) < DefaultMaxAttempts
        THEN ret.value = 0
        ELSE InWindow(call.arg, now) /= {} =>
                 ret.value = DefaultWindowMs -
                     (now - Oldest(call.arg, InWindow(call.arg, now)))

\* C23: the remaining time is 0 when fewer than maxAttempts timestamps are
\* kept, else windowMs minus the age of the oldest kept timestamp, and 0 once
\* that one has left the window; right after a rejection it is windowMs minus
\* the age of the oldest timestamp inside the window, in (0, windowMs], and
\* the wait reported is 1 to 5 minutes
C23_RemainingTime ==
    (call.fn = "getRemainingTime" /\ ret.returned) =>
        /\ ret.value =
               IF Cardinality(Kept(call.arg)) < DefaultMaxAttempts THEN 0
               ELSE Max(0, DefaultWindowMs -
                              (now - Oldest(call.arg, Kept(call.arg))))
        /\ AfterRejection =>
               /\ ret.value = DefaultWindowMs -
                      (now - Oldest(call.arg, InWindow(call.arg, now)))
               /\ 0 < ret.value
               /\ ret.value <= DefaultWindowMs
               /\ CeilMinutes(ret.value) \in 1..5

\* called right after a rejection, some time after the five calls were
\* accepted: less than the whole window remains
C23_Witness ==
    /\ AfterRejection
    /\ 0 < ret.value
    /\ ret.value < DefaultWindowMs

\* the sum of the delays
RECURSIVE SumOf(_)
SumOf(delays) == IF delays = <<>> THEN 0 ELSE Head(delays) + SumOf(Tail(delays))

\* C24: in every invocation the k-th backoff sleep (after the k-th failed
\* attempt) lasts min(1000 * 2^(k-1), 5000) ms, the delays never decrease and
\* never exceed 5000 ms, they are 1000 ms and then 2000 ms, and their sum
\* never exceeds 15000 ms
C24_BackoffDelays ==
    \A id \in Handlers :
        LET sleeps == handlers[id].sleeps
        IN  /\ \A k \in DOMAIN sleeps :
                  /\ sleeps[k] = IF 1000 * 2^(k - 1) <= 5000
                                 THEN 1000 * 2^(k - 1) ELSE 5000
                  /\ sleeps[k] <= 5000
                  /\ k > 1 => sleeps[k - 1] <= sleeps[k]
            /\ sleeps \in {<<>>, <<1000>>, <<1000, 2000>>}
            /\ handlers[id].pc = "sleep" => Len(sleeps) = handlers[id].retryAttempt
            /\ SumOf(sleeps) <= 15000

\* an invocation sleeps for the second time, after two rejected sends
C24_Witness ==
    \E id \in Handlers :
        /\ handlers[id].pc = "sleep"
        /\ handlers[id].sendCalls = 2
        /\ handlers[id].sleeps = <<1000, 2000>>

\* RATE_LIMIT.window of the security documentation: one hour
HourMs == 3600000

\* the submits of the client that the limiter admitted and still keeps, and
\* that are less than an hour old
AdmittedInHour ==
    {i \in DOMAIN MapGet(attempts, clientIP) :
        now - MapGet(attempts, clientIP)[i] < HourMs}

\* C25: the form admits at most 5 submissions of the client in any hour: a
\* submit is admitted only when fewer than 5 were admitted in the hour before
C25_FivePerHour ==
    [][\A id \in Handlers :
          (handlers[id].pc = "idle" /\ handlers'[id].pc = "try") =>
              Cardinality(AdmittedInHour) < 5
      ]_vars

\* C27: one call of submitContactForm delivers the main message at most
\* once: the provider call that succeeds is the last one for the main
\* message (after it there is at most the auto-reply), and the call then
\* returns success
C27_AtMostOneDelivery ==
    [][\A id \in Handlers :
          /\ handlers'[id].delivered <= 1
          /\ (handlers[id].pc /= "idle" /\ handlers[id].delivered = 0
                 /\ handlers'[id].delivered = 1) =>
                /\ handlers'[id].pc \in {"autoReply", "idle"}
                /\ handlers'[id].pc = "idle" => handlers'[id].result.success
          /\ (handlers[id].pc /= "idle" /\ handlers[id].delivered = 1) =>
                /\ handlers[id].pc = "autoReply"
                /\ handlers'[id].fetchCalls <= handlers[id].fetchCalls
                /\ handlers'[id].sendCalls <= handlers[id].sendCalls
                /\ handlers'[id].pc \in {"autoReply", "idle"}
                /\ handlers'[id].pc = "idle" =>
                      /\ handlers'[id].result.success
                      /\ handlers'[id].delivered = 1
      ]_vars

\* the second send of the main email succeeded and the auto-reply is pending
C27_Witness ==
    \E id \in Handlers :
        /\ handlers[id].pc = "autoReply"
        /\ handlers[id].delivered = 1
        /\ handlers[id].sendCalls = 2

\* the timestamps the limiter keeps for the client that are inside the window
SlotsTaken ==
    {i \in DOMAIN MapGet(attempts, clientIP) :
        now - MapGet(attempts, clientIP)[i] < 300000}

WaitMessages ==
    {"Too many attempts. Please wait " \o ToString(k) \o " minutes." : k \in 1..5}

\* C28: a submit that passes the honeypot check and is admitted takes a slot
\* of the rate limiter, and no later step gives it back, whatever becomes of
\* the submission; with 5 slots taken inside the window the next submit is
\* rejected with the wait-time error and starts no invocation
C28_AttemptsConsumeSlots ==
    [][/\ \A id \in Handlers :
            (handlers[id].pc = "idle" /\ handlers'[id].pc = "try") =>
                /\ honeypotField = <<>>
                /\ Cardinality(SlotsTaken) < 5
                /\ Len(MapGet(attempts', clientIP)) = Cardinality(SlotsTaken) + 1
                /\ MapGet(attempts', clientIP)[Cardinality(SlotsTaken) + 1] = now
       /\ attempts' /= attempts =>
              \E id \in Handlers : handlers[id].pc = "idle" /\ handlers'[id].pc = "try"
       /\ ((\E id \in Handlers : HandleSubmit(id)) /\ honeypotField = <<>>
              /\ Cardinality(SlotsTaken) = 5) =>
              /\ lastEvent' = "rateLimited"
              /\ formStore'.submitStatus = "error"
              /\ formStore'.errorMessage \in WaitMessages
              /\ UNCHANGED <<handlers, attempts, formData>>
      ]_vars

\* the last submission failed validation, the data is valid now, and the
\* submit is rejected by the rate limiter
C28_Witness ==
    /\ lastEvent = "rateLimited"
    /\ \A id \in Handlers : handlers[id] = HandlerInit
    /\ validateContactForm(formatFormDataForSubmission(formData)) = NoErrors
    /\ Cardinality(SlotsTaken) = 5
    /\ formStore.errorMessage \in WaitMessages

\* the ways a submit ends without success
ErrorEvents ==
    {"rateLimited", "validationFailed", "deliveryFailed", "exception",
     "honeypotAbort"}

\* C29: a submit that ends in an error and a honeypot abort leave the field
\* values as they are; the field values go back to the initial values only
\* with a successful submission or a reset; a reset also clears the field
\* errors and makes the status idle, with no message
C29_FieldsKeptOnError ==
    [][/\ lastEvent' \in ErrorEvents => formData' = formData
       /\ (formData' = initialFormData /\ formData /= initialFormData) =>
              lastEvent' = "success" \/ HandleReset
       /\ lastEvent' = "success" => formData' = initialFormData
       /\ HandleReset =>
              /\ formData' = initialFormData
              /\ errors' = NoErrors
              /\ formStore' = [isSubmitting |-> FALSE, submitStatus |-> "idle",
                               errorMessage |-> Null]
      ]_vars

\* the delivery failed and the form still holds what the user typed
C29_Witness ==
    /\ lastEvent = "deliveryFailed"
    /\ formStore.submitStatus = "error"
    /\ formData = [initialFormData EXCEPT !.name = NameJo, !.email = EmailAB,
                                          !.message = Message10]

\* C30: in every state of the form store isSubmitting is true exactly when
\* submitStatus is submitting; after resetForm the store is isSubmitting
\* false, submitStatus idle, errorMessage null; and setStatus('submitting'),
\* the call without a message, leaves no error message
C30_StoreConsistent ==
    /\ formStore.isSubmitting = (formStore.submitStatus = "submitting")
    /\ [][/\ formStore'.isSubmitting = (formStore'.submitStatus = "submitting")
          /\ formStore'.submitStatus \in {"idle", "submitting", "success", "error"}
          /\ HandleReset =>
                 /\ ~formStore'.isSubmitting
                 /\ formStore'.submitStatus = "idle"
                 /\ formStore'.errorMessage = Null
          /\ (\E id \in Handlers :
                  handlers[id].pc = "idle" /\ handlers'[id].pc = "try") =>
                 /\ formStore'.submitStatus = "submitting"
                 /\ formStore'.errorMessage = Null
         ]_vars

\* a submit is admitted while the field errors of a failed validation are
\* still shown: the status was error with a message, and the message is gone
C30_Witness ==
    /\ lastEvent = "submitting"
    /\ errors /= NoErrors
    /\ formStore = [isSubmitting |-> TRUE, submitStatus |-> "submitting",
                    errorMessage |-> Null]

\* the run was a deployment (not --rollback) and has ended
DeploymentEnded == deploy.pc = "exited" /\ ~deploy.ROLLBACK

\* a selected target's deployment failed, or the health check did
DeploymentFailed ==
    \/ deploy.failed \cap SelectedTargets(deploy.TARGET) /= {}
    \/ deploy.health = "failed"

\* the file latest names a backup that is there
BackupExists == deploy.latest \notin {"none", "missing"}

\* C26: a deployment that failed at a target or at the health check, without
\* --force, ends with a non-zero status and, where there is a backup, with
\* the latest backup restored into out/ and redeployed to the selected
\* targets; with --force it ends non-zero without a rollback; and a run that
\* reports success had every selected target deployed and the health check
\* passed
C26_RollbackOnFailure ==
    DeploymentEnded =>
        /\ (DeploymentFailed /\ ~deploy.FORCE) =>
               /\ deploy.exitCode /= 0
               /\ BackupExists =>
                      /\ deploy.restored
                      /\ deploy.redeployed = SelectedTargets(deploy.TARGET)
        /\ (DeploymentFailed /\ deploy.FORCE) =>
               /\ deploy.exitCode /= 0
               /\ ~deploy.restored
        /\ deploy.reported =>
               /\ deploy.exitCode = 0
               /\ deploy.failed = {}
               /\ deploy.health = "ok"

====
